---- MODULE Spec2Model ----
(***************************************************************************)
(* The caching subsystem of my_python_project (utils/cache.py):            *)
(* MemoryCache, FileCache, and the paths that reach them.                  *)
(*                                                                         *)
(* Every public operation of a backend runs under the backend's RLock for  *)
(* its whole duration, so an operation is one atomic action.  time.time()  *)
(* is the variable now.  The operators take one argument per clock reading *)
(* of the code; the actions pass now for each of them (an operation is     *)
(* short against the clock's step), and Tick advances the clock between    *)
(* operations.                                                             *)
(***************************************************************************)
EXTENDS Integers, Sequences, FiniteSets, TLC

\* ------------------------------------------------------------------ bounds
MaxTime == 2
MaxSize == 2
MaxOps == 5
LruMaxSize == 3
MaxStat == 1
MaxReopen == 1
MLMaxTime == 1
MaxManagers == 3

\* Python's None, and MemoryCache._UNSET (the "ttl not given" sentinel).
None == -1
UNSET == -2

\* Values that are not numbers, each standing for one Python object:
\* [1, 2, 3, "string", {"dict": "in_list"}]
PyList == 10
\* {"key": "value", "nested": {"inner": "data"}}
PyDict == 11
\* {1: {"inner": "data"}}, a dict with a key that is no string
PyDictIntKey == 12
\* {"1": {"inner": "data"}}
PyDictStrKey == 13

\* The inputs of Spec: two keys, with every kind of value and of ttl.
Keys == {"a", "b"}
Values == {None, 1, 2}
TTLs == {1, 2}
DefaultTTLs == {None} \cup TTLs
TtlArgs == {UNSET, None} \cup TTLs

\* The inputs of CapSpec: more keys than the cache holds, and little else.
\* The keys given to the FileCache: a key, and the string that is its digest
\* (the memoization decorators use md5 hex digests as keys).
FileKeySet == {"a", "md5(a)"}
Serializers == {"pickle", "json"}

\* The inputs of LruSpec: the keys of test_max_size_and_lru, each with the
\* one value the scenario stores under it.
LruKeys == {"a", "b", "c", "d"}
LruValue == [a |-> 1, b |-> 2, c |-> 3, d |-> 4]

\* The inputs of MgrSpec.
MgrValues == {1}
MgrTtlArgs == {UNSET, None, 1}
MgrDefaultTTLs == {None, 1}
BackendArgs == {"", "other"}

\* The inputs of PersistSpec.
PersistKeys == {"a"}
PersistValues == {1, PyList, PyDict, PyDictIntKey}
PersistTtlArgs == {UNSET, 1}
PersistDefaultTTLs == {None, 1}

\* The inputs of SharedDirSpec.
SharedValues == {1, 2}
SharedTtlArgs == {None, 1}

\* The inputs of MLSpec.
MLValues == {None, 1}
MLTtlArgs == {UNSET, 1}
MLDefaultTTLs == {None, 1}
\* Which tiers raise: none, the first, or the second.
MLFaults == {<<"never", "never">>, <<"always", "never">>, <<"never", "always">>}

\* The inputs of RegSpec: backend names, "" being the argument left out.
RegNames == {"", "x", "y"}
RegKeys == {"a"}
RegValues == {1}
RegTtlArgs == {UNSET}

\* StatSpec: values stored, and backend names ("" is the default backend,
\* "y" is never registered)
StatValues == {None, 1}
StatNames == {"", "x", "y"}

\* LockSpec: ttl=0 makes an entry expire at the next tick of the clock
LockValues == {1}
LockTtlArgs == {UNSET, 0}

CapKeys == {"a", "b", "c"}
CapValues == {1}
CapTtlArgs == {None, 1}

VARIABLES
    kind,       \* what this run constructed: "memory", "file", "manager"
                \* (a CacheManager over mem) or "multilevel" (over tiers)
    now,        \* the clock, time.time()
    mem,        \* the MemoryCache instance
    fc,         \* the FileCache instance: default_ttl and serializer
    dir,        \* the cache directory: file stem -> file contents
    call,       \* the caller: the operation that has just returned, or NoCall
    written,    \* per key, the last set of it not followed by delete/clear/eviction
    hist,       \* LruSpec: the operations run so far, in order;
                \* PersistSpec: the FileCache instances constructed after
                \* the first
    stats,      \* the CacheManager's _stats
    tiers,      \* the backend objects besides mem: the MultiLevelCache's
                \* caches, highest priority first, or the backends handed
                \* to CacheManager.register_backend
    backends,   \* the CacheManager's backends: name -> position in tiers
    writer,     \* the set that another FileCache instance on the same
                \* directory is in the middle of, or NoWrite
    globals     \* the module's _global_cache_manager and the CacheManager
                \* instances constructed for it

vars ==
    <<kind, now, mem, fc, dir, call, written, hist, stats, tiers, backends,
      writer, globals>>

\* ------------------------------------------------------------------ dict
\* A Python dict: key/value pairs in insertion order.
DictKeys(d) == {d[i].k : i \in DOMAIN d}

DictHas(d, key) == \E i \in DOMAIN d : d[i].k = key

DictGet(d, key) == d[CHOOSE i \in DOMAIN d : d[i].k = key].v

\* d[key] = v: an existing key keeps its position, a new one goes last.
DictPut(d, key, v) ==
    IF DictHas(d, key)
    THEN [i \in DOMAIN d |-> IF d[i].k = key THEN [k |-> key, v |-> v] ELSE d[i]]
    ELSE Append(d, [k |-> key, v |-> v])

DictDel(d, key) == SelectSeq(d, LAMBDA e : e.k # key)

DictKeyList(d) == [i \in DOMAIN d |-> d[i].k]

\* ----------------------------------------------------------- MemoryCache
NewMemoryCache(max_size, default_ttl) ==
    [max_size |-> max_size, default_ttl |-> default_ttl,
     cache |-> <<>>, access_times |-> <<>>]

\* _is_expired with >= for >: the entry is gone at its expiry time already.
is_expired_early(cache_item, t) ==
    cache_item.expires_at # None /\ t >= cache_item.expires_at

\* _is_expired at clock reading t.
is_expired(cache_item, t) ==
    cache_item.expires_at # None /\ t > cache_item.expires_at

\* delete that reports a removal whatever it found.
MemDelete_AlwaysTrue(m, key) ==
    [m |-> [m EXCEPT !.cache = DictDel(m.cache, key),
                     !.access_times = DictDel(m.access_times, key)],
     ret |-> TRUE]

\* delete that leaves the key's access time behind.
MemDelete_KeepAccess(m, key) ==
    IF DictHas(m.cache, key)
    THEN [m |-> [m EXCEPT !.cache = DictDel(m.cache, key)], ret |-> TRUE]
    ELSE [m |-> m, ret |-> FALSE]

MemDelete(m, key) ==
    IF DictHas(m.cache, key)
    THEN [m |-> [m EXCEPT !.cache = DictDel(m.cache, key),
                          !.access_times = DictDel(m.access_times, key)],
          ret |-> TRUE]
    ELSE [m |-> m, ret |-> FALSE]

\* min(self._access_times.keys(), key=...): the first key, in dict order,
\* among those with the smallest access time.
lru_key(m) ==
    LET at == m.access_times
        i == CHOOSE i \in DOMAIN at :
                /\ \A j \in DOMAIN at : at[i].v <= at[j].v
                /\ \A j \in 1..(i - 1) : at[j].v > at[i].v
    IN at[i].k

evict_lru(m) ==
    IF m.access_times = <<>> THEN m ELSE MemDelete(m, lru_key(m)).m

\* The expiry with ttl=None taken for "not given" (as FileCache.set does).
MemExpiresAt_NoneIsDefault(m, ttl, t) ==
    IF ttl = UNSET \/ ttl = None
    THEN (IF m.default_ttl # None THEN t + m.default_ttl ELSE None)
    ELSE t + ttl

\* The expiry MemoryCache.set computes; t is the clock reading it adds to.
MemExpiresAt(m, ttl, t) ==
    IF ttl = UNSET
    THEN (IF m.default_ttl # None THEN t + m.default_ttl ELSE None)
    ELSE (IF ttl # None THEN t + ttl ELSE None)

\* MemSet with the capacity test off by one (> for >=).
MemSet_LateEvict(m, key, value, ttl, t1, t2, t3) ==
    LET m1 == IF Len(m.cache) > m.max_size /\ ~DictHas(m.cache, key)
              THEN evict_lru(m) ELSE m
        item == [value |-> value, created_at |-> t2,
                 expires_at |-> MemExpiresAt(m, ttl, t1)]
    IN [m1 EXCEPT !.cache = DictPut(m1.cache, key, item),
                  !.access_times = DictPut(m1.access_times, key, t3)]

\* MemSet that first drops every expired entry.
MemSet_PurgeExpired(m, key, value, ttl, t1, t2, t3) ==
    LET live == SelectSeq(m.cache, LAMBDA e : ~is_expired(e.v, t1))
        m0 == [m EXCEPT !.cache = live,
                        !.access_times =
                            SelectSeq(m.access_times,
                                      LAMBDA e : DictHas(live, e.k))]
        m1 == IF Len(m0.cache) >= m0.max_size /\ ~DictHas(m0.cache, key)
              THEN evict_lru(m0) ELSE m0
        item == [value |-> value, created_at |-> t2,
                 expires_at |-> MemExpiresAt(m, ttl, t1)]
    IN [m1 EXCEPT !.cache = DictPut(m1.cache, key, item),
                  !.access_times = DictPut(m1.access_times, key, t3)]

\* MemSet with the capacity test alone: it evicts for a stored key too.
MemSet_EvictOnReplace(m, key, value, ttl, t1, t2, t3) ==
    LET m1 == IF Len(m.cache) >= m.max_size THEN evict_lru(m) ELSE m
        item == [value |-> value, created_at |-> t2,
                 expires_at |-> MemExpiresAt(m, ttl, t1)]
    IN [m1 EXCEPT !.cache = DictPut(m1.cache, key, item),
                  !.access_times = DictPut(m1.access_times, key, t3)]

\* set reads the clock for expires_at (t1), created_at (t2) and the access
\* time (t3), in that order.
MemSet(m, key, value, ttl, t1, t2, t3) ==
    LET m1 == IF Len(m.cache) >= m.max_size /\ ~DictHas(m.cache, key)
              THEN evict_lru(m) ELSE m
        item == [value |-> value, created_at |-> t2,
                 expires_at |-> MemExpiresAt(m, ttl, t1)]
    IN [m1 EXCEPT !.cache = DictPut(m1.cache, key, item),
                  !.access_times = DictPut(m1.access_times, key, t3)]

\* MemGet that leaves the access time of the key it finds as it was.
MemGet_NoTouch(m, key, t1, t2) ==
    IF ~DictHas(m.cache, key) THEN [m |-> m, ret |-> None]
    ELSE LET cache_item == DictGet(m.cache, key) IN
         IF is_expired(cache_item, t1)
         THEN [m |-> MemDelete(m, key).m, ret |-> None]
         ELSE [m |-> m, ret |-> cache_item.value]

\* get reads the clock in _is_expired (t1) and for the access time (t2).
MemGet(m, key, t1, t2) ==
    IF ~DictHas(m.cache, key) THEN [m |-> m, ret |-> None]
    ELSE LET cache_item == DictGet(m.cache, key) IN
         IF is_expired(cache_item, t1)
         THEN [m |-> MemDelete(m, key).m, ret |-> None]
         ELSE [m |-> [m EXCEPT !.access_times = DictPut(m.access_times, key, t2)],
               ret |-> cache_item.value]

\* exists that refreshes the access time of the key it finds, as get does.
MemExists_Touch(m, key, t) ==
    IF ~DictHas(m.cache, key) THEN [m |-> m, ret |-> FALSE]
    ELSE IF is_expired(DictGet(m.cache, key), t)
         THEN [m |-> MemDelete(m, key).m, ret |-> FALSE]
         ELSE [m |-> [m EXCEPT !.access_times = DictPut(m.access_times, key, t)],
               ret |-> TRUE]

MemExists(m, key, t) ==
    IF ~DictHas(m.cache, key) THEN [m |-> m, ret |-> FALSE]
    ELSE IF is_expired(DictGet(m.cache, key), t)
         THEN [m |-> MemDelete(m, key).m, ret |-> FALSE]
         ELSE [m |-> m, ret |-> TRUE]

MemClear(m) == [m EXCEPT !.cache = <<>>, !.access_times = <<>>]

RECURSIVE MemDeleteAll(_, _)
MemDeleteAll(m, ks) ==
    IF ks = <<>> THEN m ELSE MemDeleteAll(MemDelete(m, Head(ks)).m, Tail(ks))

\* keys that lists the dict before it deletes the expired keys.
MemKeys_ListFirst(m, ts) ==
    LET idx == SelectSeq([i \in DOMAIN m.cache |-> i],
                         LAMBDA i : is_expired(m.cache[i].v, ts[i]))
        expired_keys == [j \in DOMAIN idx |-> m.cache[idx[j]].k]
        m1 == MemDeleteAll(m, expired_keys)
    IN [m |-> m1, ret |-> DictKeyList(m.cache)]

\* keys scans the dict, reading the clock once per item (ts[i] for item i),
\* then deletes the expired keys and lists what is left.
MemKeys(m, ts) ==
    LET idx == SelectSeq([i \in DOMAIN m.cache |-> i],
                         LAMBDA i : is_expired(m.cache[i].v, ts[i]))
        expired_keys == [j \in DOMAIN idx |-> m.cache[idx[j]].k]
        m1 == MemDeleteAll(m, expired_keys)
    IN [m |-> m1, ret |-> DictKeyList(m1.cache)]

\* ------------------------------------------------------------- FileCache
\* hashlib.md5(key.encode()).hexdigest(): a string that is no key's own
\* digest; distinct keys have distinct digests.
Md5(key) == "md5(" \o key \o ")"

\* _get_cache_file: the stem of {cache_dir}/{md5(key)}.cache
get_cache_file(key) == Md5(key)

NewFileCache(default_ttl, serializer) ==
    [default_ttl |-> default_ttl, serializer |-> serializer]

\* json.loads(json.dumps(value)): JSON object keys are strings, so a key
\* that is no string comes back as its str(); the other values here come
\* back equal.
json_value(value) == IF value = PyDictIntKey THEN PyDictStrKey ELSE value

\* _serialize: the bytes carry the format that wrote them, and the object
\* that loading them gives.
serialize(c, value) ==
    [fmt |-> c.serializer,
     obj |-> IF c.serializer = "json" THEN json_value(value) ELSE value]

\* _deserialize raises on bytes of another format.
CanDeserialize(c, data) == data.fmt = c.serializer

deserialize(c, data) == data.obj

\* A file that pickle.load cannot read.
Garbage ==
    [pickled |-> FALSE, value |-> [fmt |-> "", obj |-> None],
     created_at |-> None, expires_at |-> None]

\* No set of another instance is under way.  Of a set under way: its key,
\* the envelope it is writing (contents) and what the file held when it was
\* opened (before; Garbage when there was no file).
NoWrite ==
    [pc |-> "idle", key |-> "", contents |-> Garbage, before |-> Garbage]

Unlink(d, f) == [g \in (DOMAIN d) \ {f} |-> d[g]]

WriteFile(d, f, contents) ==
    [g \in (DOMAIN d) \cup {f} |-> IF g = f THEN contents ELSE d[g]]

\* FileCache._is_expired at clock reading t.
file_is_expired(cache_data, t) ==
    cache_data.expires_at # None /\ t > cache_data.expires_at

\* The outcome of a FileCache operation: the directory it leaves, and the
\* exception it raises (exc) or, with exc = "", the value it returns (ret).
FileResult(d, ret, exc) == [d |-> d, ret |-> ret, exc |-> exc]

\* get that raises on a file it cannot read and leaves the file in place.
FileGet_KeepCorrupt(c, d, key, t) ==
    LET cache_file == get_cache_file(key) IN
    IF cache_file \notin DOMAIN d THEN FileResult(d, None, "")
    ELSE IF ~d[cache_file].pickled
    THEN FileResult(d, None, "CacheSerializationError")
    ELSE IF file_is_expired(d[cache_file], t)
    THEN FileResult(Unlink(d, cache_file), None, "")
    ELSE IF ~CanDeserialize(c, d[cache_file].value)
    THEN FileResult(d, None, "CacheSerializationError")
    ELSE FileResult(d, deserialize(c, d[cache_file].value), "")

FileGet(c, d, key, t) ==
    LET cache_file == get_cache_file(key) IN
    IF cache_file \notin DOMAIN d THEN FileResult(d, None, "")
    ELSE IF ~d[cache_file].pickled
    THEN FileResult(Unlink(d, cache_file), None, "CacheSerializationError")
    ELSE IF file_is_expired(d[cache_file], t)
    THEN FileResult(Unlink(d, cache_file), None, "")
    ELSE IF ~CanDeserialize(c, d[cache_file].value)
    THEN FileResult(Unlink(d, cache_file), None, "CacheSerializationError")
    ELSE FileResult(d, deserialize(c, d[cache_file].value), "")

\* The expiry FileCache.set computes from its ttl parameter.
FileExpiresAt(c, ttl, t) ==
    IF ttl # None THEN t + ttl
    ELSE IF c.default_ttl # None THEN t + c.default_ttl
    ELSE None

\* set reads the clock for expires_at (t1) and created_at (t2).
FileSet(c, d, key, value, ttl, t1, t2) ==
    WriteFile(d, get_cache_file(key),
              [pickled |-> TRUE, value |-> serialize(c, value),
               created_at |-> t2, expires_at |-> FileExpiresAt(c, ttl, t1)])

FileDelete(d, key) ==
    IF get_cache_file(key) \in DOMAIN d
    THEN FileResult(Unlink(d, get_cache_file(key)), TRUE, "")
    ELSE FileResult(d, FALSE, "")

\* exists: return self.get(key) is not None
FileExists(c, d, key, t) ==
    LET r == FileGet(c, d, key, t) IN
    IF r.exc # "" THEN FileResult(r.d, FALSE, r.exc)
    ELSE FileResult(r.d, r.ret # None, "")

FileClear(d) == << >>

\* keys: for each file of the listing, key = cache_file.stem, kept when
\* self.exists(key); an exception of exists ends the scan.
RECURSIVE FileKeysScan(_, _, _, _, _)
FileKeysScan(c, d, stems, t, keys) ==
    IF stems = << >> THEN FileResult(d, keys, "")
    ELSE LET r == FileExists(c, d, Head(stems), t) IN
         IF r.exc # "" THEN FileResult(r.d, << >>, r.exc)
         ELSE FileKeysScan(c, r.d, Tail(stems), t,
                           IF r.ret THEN Append(keys, Head(stems)) ELSE keys)

\* listing: the stems glob('*.cache') yields, in the order it yields them.
FileKeys(c, d, listing, t) == FileKeysScan(c, d, listing, t, << >>)

\* ----------------------------------------------------------- CacheManager
\* _stats as __init__ and reset_stats set it.
NewStats == [hits |-> 0, misses |-> 0, sets |-> 0, deletes |-> 0]

\* get_backend that falls back to the default backend for a name it does
\* not know.
get_backend_lenient(reg, name) ==
    IF name = "" \/ name \notin DOMAIN reg THEN [exc |-> "", ret |-> 0]
    ELSE [exc |-> "", ret |-> reg[name]]

\* get_backend(name) on the registry reg.  The argument left out is "",
\* and the backend returned is named by its place: 0 for default_backend,
\* j for the object tiers[j].
get_backend(reg, name) ==
    IF name = "" THEN [exc |-> "", ret |-> 0]
    ELSE IF name \notin DOMAIN reg THEN [exc |-> "CacheKeyError", ret |-> 0]
    ELSE [exc |-> "", ret |-> reg[name]]

\* register_backend: self.backends[name] = backend
register_backend(reg, name, backend) ==
    [n \in (DOMAIN reg) \cup {name} |-> IF n = name THEN backend ELSE reg[n]]

\* ------------------------------------------------------------ decorators
\* "|".join(parts), ", ".join(parts)
RECURSIVE Join(_, _)
Join(parts, sep) ==
    IF parts = << >> THEN ""
    ELSE IF Len(parts) = 1 THEN parts[1]
    ELSE parts[1] \o sep \o Join(Tail(parts), sep)

\* str(args) of a tuple of ints: "()", "(1,)", "(1, 2)"
PyStrTuple(args) ==
    IF Len(args) = 1 THEN "(" \o ToString(args[1]) \o ",)"
    ELSE "(" \o Join([i \in DOMAIN args |-> ToString(args[i])], ", ") \o ")"

\* str(items) of a list of (name, int) pairs: "[('a', 1), ('b', 2)]"
PyStrItems(items) ==
    "[" \o Join([i \in DOMAIN items |->
                   "('" \o items[i].k \o "', " \o ToString(items[i].v) \o ")"],
                ", ") \o "]"

\* The keyword names in use, in the order < has on Python strings.
KwNames == <<"a", "b">>

\* sorted(kwargs.items()): kwargs is a dict, its items in the order the call
\* gave them; names are unique, so the values are never compared.
SortedItems(kwargs) ==
    LET rank(n) == CHOOSE i \in DOMAIN KwNames : KwNames[i] = n
    IN SortSeq(kwargs, LAMBDA x, y : rank(x.k) < rank(y.k))

\* _generate_cache_key with the keyword arguments in the order of the call.
generate_cache_key_unsorted(func, args, kwargs) ==
    Md5(Join(<<func.module, func.name>>
             \o (IF args # << >> THEN <<PyStrTuple(args)>> ELSE << >>)
             \o (IF kwargs # << >> THEN <<PyStrItems(kwargs)>> ELSE << >>),
             "|"))

\* _generate_cache_key(func, args, kwargs)
generate_cache_key(func, args, kwargs) ==
    Md5(Join(<<func.module, func.name>>
             \o (IF args # << >> THEN <<PyStrTuple(args)>> ELSE << >>)
             \o (IF kwargs # << >>
                 THEN <<PyStrItems(SortedItems(kwargs))>> ELSE << >>),
             "|"))

\* The key function of test_cache_with_custom_key_function:
\* custom_key(user_id, **kwargs) = f"user_{user_id}"
custom_key(args, kwargs) == "user_" \o ToString(args[1])

\* The classes "except Exception" catches among those the cache raises.
Exceptions == {"CacheError", "CacheKeyError", "CacheSerializationError"}

\* "except CacheKeyError: pass" in place of "except Exception: pass"
ExceptPass_KeyErrorOnly(exc) == IF exc = "CacheKeyError" THEN "" ELSE exc

\* try: ... except Exception: pass -- the exception that leaves the
\* statement when its body raised exc ("" for none)
ExceptPass(exc) == IF exc \in Exceptions THEN "" ELSE exc

\* ------------------------------------------------------- MultiLevelCache
\* A tier of the composite: a MemoryCache, and whether its operations raise
\* ("never", or "always" as the Mock of test_cache_failure_resilience).
Tier(m, faulty) ==
    [max_size |-> m.max_size, default_ttl |-> m.default_ttl,
     cache |-> m.cache, access_times |-> m.access_times, faulty |-> faulty]

\* The sets of tiers that can be the ones raising during one operation.
Failures(ts) ==
    {F \in SUBSET (DOMAIN ts) :
        \A j \in DOMAIN ts : /\ ts[j].faulty = "always" => j \in F
                             /\ ts[j].faulty = "never" => j \notin F}

\* get that writes nothing back.
MLWriteBack_Nothing(ts, n, key, value, t, fail) == ts

\* get writes the value found back to the tiers above the one that had it:
\* self.caches[j].set(key, value), no ttl given, an exception ignored.
MLWriteBack(ts, n, key, value, t, fail) ==
    [j \in DOMAIN ts |->
        IF j <= n /\ j \notin fail
        THEN MemSet(ts[j], key, value, UNSET, t, t, t) ELSE ts[j]]

\* get from tier i on: the first tier whose get returns a value that is not
\* None answers; a tier whose get raises is passed over.
RECURSIVE MLGetFrom(_, _, _, _, _)
MLGetFrom(ts, i, key, t, fail) ==
    IF i > Len(ts) THEN [tiers |-> ts, ret |-> None]
    ELSE IF i \in fail THEN MLGetFrom(ts, i + 1, key, t, fail)
    ELSE LET r == MemGet(ts[i], key, t, t)
             ts1 == [ts EXCEPT ![i] = r.m]
         IN IF r.ret # None
            THEN [tiers |-> MLWriteBack(ts1, i - 1, key, r.ret, t, fail),
                  ret |-> r.ret]
            ELSE MLGetFrom(ts1, i + 1, key, t, fail)

MLGet(ts, key, t, fail) == MLGetFrom(ts, 1, key, t, fail)

\* set that gives up at the first tier that raises.
MLSet_StopAtFailure(ts, key, value, ttl, t, fail) ==
    [j \in DOMAIN ts |->
        IF \A i \in 1..j : i \notin fail
        THEN MemSet(ts[j], key, value, ttl, t, t, t) ELSE ts[j]]

\* set: cache.set(key, value, ttl) on every tier, ttl being the parameter;
\* a tier that raises is passed over.
MLSet(ts, key, value, ttl, t, fail) ==
    [j \in DOMAIN ts |->
        IF j \notin fail THEN MemSet(ts[j], key, value, ttl, t, t, t)
        ELSE ts[j]]

\* delete that reports what the first tier reported.
MLDelete_FirstOnly(ts, key, fail) ==
    [tiers |-> [j \in DOMAIN ts |->
                    IF j \notin fail THEN MemDelete(ts[j], key).m ELSE ts[j]],
     ret |-> 1 \notin fail /\ MemDelete(ts[1], key).ret]

MLDelete(ts, key, fail) ==
    [tiers |-> [j \in DOMAIN ts |->
                    IF j \notin fail THEN MemDelete(ts[j], key).m ELSE ts[j]],
     ret |-> \E j \in (DOMAIN ts) \ fail : MemDelete(ts[j], key).ret]

\* exists: return self.get(key) is not None
MLExists(ts, key, t, fail) ==
    LET r == MLGet(ts, key, t, fail)
    IN [tiers |-> r.tiers, ret |-> r.ret # None]

MLClear(ts, fail) ==
    [j \in DOMAIN ts |-> IF j \notin fail THEN MemClear(ts[j]) ELSE ts[j]]

\* keys that asks the first tier only.
MLKeys_FirstTier(ts, t, fail) ==
    LET r == MemKeys(ts[1], [i \in DOMAIN ts[1].cache |-> t])
    IN [tiers |-> [ts EXCEPT ![1] = IF 1 \in fail THEN ts[1] ELSE r.m],
        ret |-> IF 1 \in fail THEN {} ELSE {r.ret[i] : i \in DOMAIN r.ret}]

\* keys: the union of the keys() of the tiers that do not raise, as a set.
MLKeys(ts, t, fail) ==
    LET r == [j \in DOMAIN ts |-> MemKeys(ts[j], [i \in DOMAIN ts[j].cache |-> t])]
    IN [tiers |-> [j \in DOMAIN ts |-> IF j \notin fail THEN r[j].m ELSE ts[j]],
        ret |-> UNION {{r[j].ret[i] : i \in DOMAIN r[j].ret} :
                          j \in (DOMAIN ts) \ fail}]

\* The keys stored in some tier.
MLStored(ts) == UNION {DictKeys(ts[j].cache) : j \in DOMAIN ts}

\* ------------------------------------------------------------------ caller
\* call records what the caller saw of the operation that has just returned:
\* its name and key; what it returned, by type (val for get, ok for delete
\* and exists, list for keys; the others stay at their defaults); the
\* exception raised ("" for none) with its __cause__ and __context__ ("" for
\* None); gone, what the operation removed from the store (keys of a
\* MemoryCache, file stems of a FileCache); and ran, how many times a
\* decorated function's wrapper ran the function itself.
NoCall ==
    [op |-> "idle", key |-> "", val |-> None, ok |-> FALSE, list |-> << >>,
     exc |-> "", cause |-> "", context |-> "", gone |-> {}, ran |-> 0]

RetNone(op, key, gone) == [NoCall EXCEPT !.op = op, !.key = key, !.gone = gone]

RetVal(op, key, val, gone) == [RetNone(op, key, gone) EXCEPT !.val = val]

RetBool(op, key, ok, gone) == [RetNone(op, key, gone) EXCEPT !.ok = ok]

RetList(op, key, list, gone) == [RetNone(op, key, gone) EXCEPT !.list = list]

Raised(op, key, exc, gone) == [RetNone(op, key, gone) EXCEPT !.exc = exc]

\* "except Exception as e: raise exc(...)": a raise without "from e" inside
\* the handler of e.  Python stores e in the new exception's __context__ and
\* leaves its __cause__ at None.
RaisedIn(op, key, exc, e) ==
    [Raised(op, key, exc, {}) EXCEPT !.context = e]

MemGone(m1, m2) == DictKeys(m1.cache) \ DictKeys(m2.cache)

\* The record the set of key leaves in written: what was asked, and when.
\* by numbers the instance that ran the set (see Reopen).
WrittenAfterSet(gone, key, value, ttl) ==
    [k \in ((DOMAIN written) \ gone) \cup {key} |->
        IF k = key
        THEN [value |-> value, ttl |-> ttl, at |-> now, by |-> Len(hist)]
        ELSE written[k]]

Forget(gone) == [k \in (DOMAIN written) \ gone |-> written[k]]

\* The module as imported: _global_cache_manager = None, no CacheManager
\* constructed.  cache_manager is None or the place in managers of the
\* instance the global names.
NoGlobals == [cache_manager |-> None, managers |-> << >>]

\* ------------------------------------------------------------------ actions
\* After construction: MemoryCache(max_size, default_ttl), empty.
InitMemory(sizes, defaults) ==
    /\ kind = "memory"
    /\ globals = NoGlobals
    /\ now = 0
    /\ \E n \in sizes, d \in defaults : mem = NewMemoryCache(n, d)
    /\ fc = NewFileCache(None, "pickle")
    /\ dir = << >>
    /\ call = NoCall
    /\ written = << >>
    /\ hist = << >>
    /\ stats = NewStats
    /\ backends = << >>
    /\ writer = NoWrite
    /\ tiers = << >>

\* After construction: FileCache(cache_dir, default_ttl, serializer) on an
\* empty directory.
InitFile(defaults, serializers) ==
    /\ kind = "file"
    /\ globals = NoGlobals
    /\ now = 0
    /\ mem = NewMemoryCache(1, None)
    /\ \E d \in defaults, sz \in serializers : fc = NewFileCache(d, sz)
    /\ dir = << >>
    /\ call = NoCall
    /\ written = << >>
    /\ hist = << >>
    /\ stats = NewStats
    /\ backends = << >>
    /\ writer = NoWrite
    /\ tiers = << >>

Init ==
    \/ InitMemory(1..MaxSize, DefaultTTLs)
    \/ InitFile(DefaultTTLs, Serializers)

Tick ==
    /\ call.op = "idle"
    /\ now < MaxTime
    /\ now' = now + 1
    /\ UNCHANGED <<kind, globals, mem, fc, dir, call, written, hist, stats, tiers, backends, writer>>

Return ==
    /\ call.op # "idle"
    /\ call' = NoCall
    /\ UNCHANGED <<kind, globals, now, mem, fc, dir, written, hist, stats, tiers, backends, writer>>

MemorySet(key, value, ttl) ==
    /\ kind = "memory" /\ call.op = "idle"
    /\ mem' = MemSet(mem, key, value, ttl, now, now, now)
    /\ call' = RetNone("set", key, MemGone(mem, mem'))
    /\ written' = WrittenAfterSet(MemGone(mem, mem'), key, value, ttl)
    /\ UNCHANGED <<kind, globals, now, fc, dir, hist, stats, tiers, backends, writer>>

MemoryGet(key) ==
    /\ kind = "memory" /\ call.op = "idle"
    /\ LET r == MemGet(mem, key, now, now) IN
        /\ mem' = r.m
        /\ call' = RetVal("get", key, r.ret, MemGone(mem, r.m))
    /\ UNCHANGED <<kind, globals, now, fc, dir, written, hist, stats, tiers, backends, writer>>

MemoryDelete(key) ==
    /\ kind = "memory" /\ call.op = "idle"
    /\ LET r == MemDelete(mem, key) IN
        /\ mem' = r.m
        /\ call' = RetBool("delete", key, r.ret, MemGone(mem, r.m))
    /\ written' = Forget({key})
    /\ UNCHANGED <<kind, globals, now, fc, dir, hist, stats, tiers, backends, writer>>

MemoryExists(key) ==
    /\ kind = "memory" /\ call.op = "idle"
    /\ LET r == MemExists(mem, key, now) IN
        /\ mem' = r.m
        /\ call' = RetBool("exists", key, r.ret, MemGone(mem, r.m))
    /\ UNCHANGED <<kind, globals, now, fc, dir, written, hist, stats, tiers, backends, writer>>

MemoryClear ==
    /\ kind = "memory" /\ call.op = "idle"
    /\ mem' = MemClear(mem)
    /\ call' = RetNone("clear", "", DictKeys(mem.cache))
    /\ written' = << >>
    /\ UNCHANGED <<kind, globals, now, fc, dir, hist, stats, tiers, backends, writer>>

MemoryKeys ==
    /\ kind = "memory" /\ call.op = "idle"
    /\ LET r == MemKeys(mem, [i \in DOMAIN mem.cache |-> now]) IN
        /\ mem' = r.m
        /\ call' = RetList("keys", "", r.ret, MemGone(mem, r.m))
    /\ UNCHANGED <<kind, globals, now, fc, dir, written, hist, stats, tiers, backends, writer>>

\* The orders in which glob may list the files of d.
Listings(d) ==
    {l \in [1..Cardinality(DOMAIN d) -> DOMAIN d] :
        \A i \in DOMAIN l : \A j \in DOMAIN l : l[i] = l[j] => i = j}

FileGone(d1, d2) == (DOMAIN d1) \ (DOMAIN d2)

\* What the caller sees of a FileCache result r: the exception, or the value.
FileRetVal(op, key, r) ==
    IF r.exc # "" THEN Raised(op, key, r.exc, FileGone(dir, r.d))
    ELSE RetVal(op, key, r.ret, FileGone(dir, r.d))

FileRetBool(op, key, r) ==
    IF r.exc # "" THEN Raised(op, key, r.exc, FileGone(dir, r.d))
    ELSE RetBool(op, key, r.ret, FileGone(dir, r.d))

FileRetList(op, key, r) ==
    IF r.exc # "" THEN Raised(op, key, r.exc, FileGone(dir, r.d))
    ELSE RetList(op, key, r.ret, FileGone(dir, r.d))

\* ttl is the caller's argument; UNSET is the call that gives none, which
\* binds the parameter to its default, None.
FileCacheSet(key, value, ttl) ==
    /\ kind = "file" /\ call.op = "idle"
    /\ dir' = FileSet(fc, dir, key, value,
                      IF ttl = UNSET THEN None ELSE ttl, now, now)
    /\ call' = RetNone("set", key, {})
    /\ written' = WrittenAfterSet({}, key, value, ttl)
    /\ UNCHANGED <<kind, globals, now, mem, fc, hist, stats, tiers, backends, writer>>

FileCacheGet(key) ==
    /\ kind = "file" /\ call.op = "idle"
    /\ LET r == FileGet(fc, dir, key, now) IN
        /\ dir' = r.d
        /\ call' = FileRetVal("get", key, r)
    /\ UNCHANGED <<kind, globals, now, mem, fc, written, hist, stats, tiers, backends, writer>>

FileCacheDelete(key) ==
    /\ kind = "file" /\ call.op = "idle"
    /\ LET r == FileDelete(dir, key) IN
        /\ dir' = r.d
        /\ call' = FileRetBool("delete", key, r)
    /\ written' = Forget({key})
    /\ UNCHANGED <<kind, globals, now, mem, fc, hist, stats, tiers, backends, writer>>

FileCacheExists(key) ==
    /\ kind = "file" /\ call.op = "idle"
    /\ LET r == FileExists(fc, dir, key, now) IN
        /\ dir' = r.d
        /\ call' = FileRetBool("exists", key, r)
    /\ UNCHANGED <<kind, globals, now, mem, fc, written, hist, stats, tiers, backends, writer>>

FileCacheClear ==
    /\ kind = "file" /\ call.op = "idle"
    /\ dir' = FileClear(dir)
    /\ call' = RetNone("clear", "", DOMAIN dir)
    /\ written' = << >>
    /\ UNCHANGED <<kind, globals, now, mem, fc, hist, stats, tiers, backends, writer>>

FileCacheKeys ==
    /\ kind = "file" /\ call.op = "idle"
    /\ \E listing \in Listings(dir) :
        LET r == FileKeys(fc, dir, listing, now) IN
        /\ dir' = r.d
        /\ call' = FileRetList("keys", "", r)
    /\ UNCHANGED <<kind, globals, now, mem, fc, written, hist, stats, tiers, backends, writer>>

\* Something outside the cache overwrites a cache file with bytes that are
\* no pickle (test_corrupted_cache_file writes such a file).
Corrupt(f) ==
    /\ kind = "file" /\ call.op = "idle"
    /\ f \in DOMAIN dir /\ dir[f].pickled
    /\ dir' = [dir EXCEPT ![f] = Garbage]
    /\ written' = Forget({k \in DOMAIN written : get_cache_file(k) = f})
    /\ UNCHANGED <<kind, globals, now, mem, fc, call, hist, stats, tiers, backends, writer>>

FileOps(keys, values, ttls) ==
    \/ \E key \in keys, value \in values, ttl \in ttls : FileCacheSet(key, value, ttl)
    \/ \E key \in keys : FileCacheGet(key)
    \/ \E key \in keys : FileCacheDelete(key)
    \/ \E key \in keys : FileCacheExists(key)
    \/ FileCacheClear
    \/ FileCacheKeys
    \/ \E f \in DOMAIN dir : Corrupt(f)

MemoryOps(keys, values, ttls) ==
    \/ \E key \in keys, value \in values, ttl \in ttls : MemorySet(key, value, ttl)
    \/ \E key \in keys : MemoryGet(key)
    \/ \E key \in keys : MemoryDelete(key)
    \/ \E key \in keys : MemoryExists(key)
    \/ MemoryClear
    \/ MemoryKeys

Next ==
    \/ Tick
    \/ Return
    \/ MemoryOps(Keys, Values, TtlArgs)
    \/ FileOps(FileKeySet, Values, TtlArgs)

Spec == Init /\ [][Next]_vars

\* ------------------------------------------------------------------ CapSpec
\* A MemoryCache smaller than its key set, so that set evicts.
CapInit == InitMemory(1..MaxSize, {None})

CapNext ==
    \/ Tick
    \/ Return
    \/ MemoryOps(CapKeys, CapValues, CapTtlArgs)

CapSpec == CapInit /\ [][CapNext]_vars

\* ------------------------------------------------------------------ LruSpec
\* A MemoryCache under a clock that strictly increases between operations:
\* every operation runs at now, and the clock has moved on before the next.
\* hist records each operation, and whether it accessed its key (a set, or
\* a get that found the key).
LruInit == InitMemory(1..LruMaxSize, {None})

LruSet(key) ==
    /\ Len(hist) < MaxOps
    /\ mem' = MemSet(mem, key, LruValue[key], UNSET, now, now, now)
    /\ call' = RetNone("set", key, MemGone(mem, mem'))
    /\ hist' = Append(hist, [op |-> "set", key |-> key, hit |-> TRUE])
    /\ now' = now + 1
    /\ UNCHANGED <<kind, globals, fc, dir, written, stats, tiers, backends, writer>>

LruGet(key) ==
    /\ Len(hist) < MaxOps
    /\ LET r == MemGet(mem, key, now, now) IN
        /\ mem' = r.m
        /\ call' = RetVal("get", key, r.ret, MemGone(mem, r.m))
        /\ hist' = Append(hist, [op |-> "get", key |-> key,
                                  hit |-> DictHas(mem.cache, key)])
    /\ now' = now + 1
    /\ UNCHANGED <<kind, globals, fc, dir, written, stats, tiers, backends, writer>>

LruNext ==
    \/ \E key \in LruKeys : LruSet(key)
    \/ \E key \in LruKeys : LruGet(key)

LruSpec == LruInit /\ [][LruNext]_vars

\* ------------------------------------------------------------------ MgrSpec
\* A CacheManager whose default backend is a MemoryCache (mem) and that has
\* no named backend, or a MultiLevelCache over two MemoryCaches (tiers).
InitManager(sizes, defaults) ==
    /\ kind = "manager"
    /\ globals = NoGlobals
    /\ now = 0
    /\ \E n \in sizes, d \in defaults : mem = NewMemoryCache(n, d)
    /\ fc = NewFileCache(None, "pickle")
    /\ dir = << >>
    /\ call = NoCall
    /\ written = << >>
    /\ hist = << >>
    /\ stats = NewStats
    /\ backends = << >>
    /\ writer = NoWrite
    /\ tiers = << >>

InitMultiLevel(sizes, defaults) ==
    /\ kind = "multilevel"
    /\ globals = NoGlobals
    /\ now = 0
    /\ mem = NewMemoryCache(1, None)
    /\ fc = NewFileCache(None, "pickle")
    /\ dir = << >>
    /\ call = NoCall
    /\ written = << >>
    /\ hist = << >>
    /\ stats = NewStats
    /\ backends = << >>
    /\ writer = NoWrite
    /\ \E n \in sizes, d1 \in defaults, d2 \in defaults :
          tiers = << Tier(NewMemoryCache(n, d1), "never"),
                     Tier(NewMemoryCache(MaxSize, d2), "never") >>

MgrInit ==
    \/ InitManager(1..MaxSize, DefaultTTLs)
    \/ InitMultiLevel(1..MaxSize, MgrDefaultTTLs)

\* get_backend succeeds for this argument.
BackendKnown(backend) == get_backend(backends, backend).exc = ""

\* The backend object get_backend returns for this argument.
Backend(backend) ==
    IF get_backend(backends, backend).ret = 0 THEN mem
    ELSE tiers[get_backend(backends, backend).ret]

\* What the try block of a manager operation may raise before the backend
\* has done anything: "" for nothing, the exception of get_backend for a
\* name that is not registered, or the CacheError a backend raises itself
\* (RedisCache does when its server cannot be reached).
BackendErrors(backend) ==
    IF ~BackendKnown(backend) THEN {get_backend(backends, backend).exc}
    ELSE IF get_backend(backends, backend).ret = 0 THEN {""}
    ELSE IF Backend(backend).faulty = "never" THEN {""}
    ELSE IF Backend(backend).faulty = "always" THEN {"CacheError"}
    ELSE {"", "CacheError"}

\* The operation's effect lands on the default backend whatever was named.
BackendBecomes_Default(backend, m) == mem' = m /\ tiers' = tiers

\* The operation leaves the backend object selected in state m.
BackendBecomes(backend, m) ==
    IF get_backend(backends, backend).ret = 0
    THEN mem' = m /\ tiers' = tiers
    ELSE /\ tiers' = [tiers EXCEPT ![get_backend(backends, backend).ret] = m]
         /\ mem' = mem

\* ttl is the caller's argument; UNSET is the call that gives none, which
\* binds the parameter to its default, None, and that is what the backend's
\* set is called with.  written follows the default backend.
ManagerSet(key, value, ttl, backend) ==
    /\ kind = "manager" /\ call.op = "idle"
    /\ \E e \in BackendErrors(backend) :
       IF e = ""
       THEN LET m == MemSet(Backend(backend), key, value,
                            IF ttl = UNSET THEN None ELSE ttl, now, now, now)
            IN /\ stats.sets < MaxStat
               /\ BackendBecomes(backend, m)
               /\ stats' = [stats EXCEPT !.sets = @ + 1]
               /\ call' = RetNone("set", key, MemGone(Backend(backend), m))
               /\ written' = IF backend = ""
                             THEN WrittenAfterSet(MemGone(mem, m), key, value, ttl)
                             ELSE written
       ELSE /\ call' = RaisedIn("set", key, "CacheError", e)
            /\ UNCHANGED <<mem, tiers, stats, written>>
    /\ UNCHANGED <<kind, globals, now, fc, dir, backends, writer>>

\* get that raises without counting a miss.
ManagerGet_NoCount(key, backend) ==
    /\ kind = "manager" /\ call.op = "idle"
    /\ \E e \in BackendErrors(backend) :
       IF e = ""
       THEN LET r == MemGet(Backend(backend), key, now, now) IN
            /\ IF r.ret # None THEN stats.hits < MaxStat
                               ELSE stats.misses < MaxStat
            /\ BackendBecomes(backend, r.m)
            /\ stats' = IF r.ret # None THEN [stats EXCEPT !.hits = @ + 1]
                        ELSE [stats EXCEPT !.misses = @ + 1]
            /\ call' = RetVal("get", key, r.ret, MemGone(Backend(backend), r.m))
       ELSE /\ call' = RaisedIn("get", key, "CacheError", e)
            /\ UNCHANGED <<mem, tiers, stats>>
    /\ UNCHANGED <<kind, globals, now, fc, dir, written, backends, writer>>

\* get: a value counts a hit, None a miss; an exception, from get_backend
\* or from the backend's get, counts a miss and is raised as CacheError.
ManagerGet(key, backend) ==
    /\ kind = "manager" /\ call.op = "idle"
    /\ \E e \in BackendErrors(backend) :
       IF e = ""
       THEN LET r == MemGet(Backend(backend), key, now, now) IN
            /\ IF r.ret # None THEN stats.hits < MaxStat
                               ELSE stats.misses < MaxStat
            /\ BackendBecomes(backend, r.m)
            /\ stats' = IF r.ret # None THEN [stats EXCEPT !.hits = @ + 1]
                        ELSE [stats EXCEPT !.misses = @ + 1]
            /\ call' = RetVal("get", key, r.ret, MemGone(Backend(backend), r.m))
       ELSE /\ stats.misses < MaxStat
            /\ stats' = [stats EXCEPT !.misses = @ + 1]
            /\ call' = RaisedIn("get", key, "CacheError", e)
            /\ UNCHANGED <<mem, tiers>>
    /\ UNCHANGED <<kind, globals, now, fc, dir, written, backends, writer>>

\* delete that counts every call that does not raise.
ManagerDelete_CountAll(key, backend) ==
    /\ kind = "manager" /\ call.op = "idle"
    /\ \E e \in BackendErrors(backend) :
       IF e = ""
       THEN LET r == MemDelete(Backend(backend), key) IN
            /\ stats.deletes < MaxStat
            /\ BackendBecomes(backend, r.m)
            /\ stats' = [stats EXCEPT !.deletes = @ + 1]
            /\ call' = RetBool("delete", key, r.ret,
                               MemGone(Backend(backend), r.m))
            /\ written' = IF backend = "" THEN Forget({key}) ELSE written
       ELSE /\ call' = RaisedIn("delete", key, "CacheError", e)
            /\ UNCHANGED <<mem, tiers, stats, written>>
    /\ UNCHANGED <<kind, globals, now, fc, dir, backends, writer>>

ManagerDelete(key, backend) ==
    /\ kind = "manager" /\ call.op = "idle"
    /\ \E e \in BackendErrors(backend) :
       IF e = ""
       THEN LET r == MemDelete(Backend(backend), key) IN
            /\ r.ret => stats.deletes < MaxStat
            /\ BackendBecomes(backend, r.m)
            /\ stats' = IF r.ret THEN [stats EXCEPT !.deletes = @ + 1] ELSE stats
            /\ call' = RetBool("delete", key, r.ret,
                               MemGone(Backend(backend), r.m))
            /\ written' = IF backend = "" THEN Forget({key}) ELSE written
       ELSE /\ call' = RaisedIn("delete", key, "CacheError", e)
            /\ UNCHANGED <<mem, tiers, stats, written>>
    /\ UNCHANGED <<kind, globals, now, fc, dir, backends, writer>>

ManagerClear(backend) ==
    /\ kind = "manager" /\ call.op = "idle"
    /\ \E e \in BackendErrors(backend) :
       IF e = ""
       THEN /\ BackendBecomes(backend, MemClear(Backend(backend)))
            /\ call' = RetNone("clear", "", DictKeys(Backend(backend).cache))
            /\ written' = IF backend = "" THEN << >> ELSE written
       ELSE /\ call' = RaisedIn("clear", "", "CacheError", e)
            /\ UNCHANGED <<mem, tiers, written>>
    /\ UNCHANGED <<kind, globals, now, fc, dir, stats, backends, writer>>

\* register_backend(name, tiers[j]).
ManagerRegister(name, j) ==
    /\ kind = "manager" /\ call.op = "idle"
    /\ j \in DOMAIN tiers
    /\ backends' = register_backend(backends, name, j)
    /\ call' = RetVal("register_backend", name, j, {})
    /\ UNCHANGED <<kind, globals, now, mem, fc, dir, written, stats, tiers, writer>>

\* get_backend(name), called by the user of the manager.
ManagerGetBackend(name) ==
    /\ kind = "manager" /\ call.op = "idle"
    /\ LET r == get_backend(backends, name) IN
        call' = IF r.exc # "" THEN Raised("get_backend", name, r.exc, {})
                ELSE RetVal("get_backend", name, r.ret, {})
    /\ UNCHANGED <<kind, globals, now, mem, fc, dir, written, stats, tiers, backends,
                   writer>>

ManagerResetStats ==
    /\ kind = "manager" /\ call.op = "idle"
    /\ stats # NewStats
    /\ stats' = NewStats
    /\ call' = RetNone("reset_stats", "", {})
    /\ UNCHANGED <<kind, globals, now, mem, fc, dir, written, tiers, backends, writer>>

MultiLevelSet(key, value, ttl) ==
    /\ kind = "multilevel" /\ call.op = "idle"
    /\ \E fail \in Failures(tiers) :
        tiers' = MLSet(tiers, key, value,
                       IF ttl = UNSET THEN None ELSE ttl, now, fail)
    /\ call' = RetNone("set", key, MLStored(tiers) \ MLStored(tiers'))
    /\ written' = WrittenAfterSet(MLStored(tiers) \ MLStored(tiers'),
                                  key, value, ttl)
    /\ UNCHANGED <<kind, globals, now, mem, fc, dir, hist, stats, backends, writer>>

MultiLevelGet(key) ==
    /\ kind = "multilevel" /\ call.op = "idle"
    /\ \E fail \in Failures(tiers) :
        LET r == MLGet(tiers, key, now, fail) IN
        /\ tiers' = r.tiers
        /\ call' = RetVal("get", key, r.ret, MLStored(tiers) \ MLStored(r.tiers))
    /\ UNCHANGED <<kind, globals, now, mem, fc, dir, written, hist, stats, backends,
                   writer>>

MultiLevelDelete(key) ==
    /\ kind = "multilevel" /\ call.op = "idle"
    /\ \E fail \in Failures(tiers) :
        LET r == MLDelete(tiers, key, fail) IN
        /\ tiers' = r.tiers
        /\ call' = RetBool("delete", key, r.ret,
                           MLStored(tiers) \ MLStored(r.tiers))
    /\ written' = Forget({key})
    /\ UNCHANGED <<kind, globals, now, mem, fc, dir, hist, stats, backends, writer>>

MultiLevelExists(key) ==
    /\ kind = "multilevel" /\ call.op = "idle"
    /\ \E fail \in Failures(tiers) :
        LET r == MLExists(tiers, key, now, fail) IN
        /\ tiers' = r.tiers
        /\ call' = RetBool("exists", key, r.ret,
                           MLStored(tiers) \ MLStored(r.tiers))
    /\ UNCHANGED <<kind, globals, now, mem, fc, dir, written, hist, stats, backends,
                   writer>>

MultiLevelClear ==
    /\ kind = "multilevel" /\ call.op = "idle"
    /\ \E fail \in Failures(tiers) : tiers' = MLClear(tiers, fail)
    /\ call' = RetNone("clear", "", MLStored(tiers))
    /\ written' = << >>
    /\ UNCHANGED <<kind, globals, now, mem, fc, dir, hist, stats, backends, writer>>

\* list(all_keys): the keys of the set, in some order.
MultiLevelKeys ==
    /\ kind = "multilevel" /\ call.op = "idle"
    /\ \E fail \in Failures(tiers) :
        LET r == MLKeys(tiers, now, fail) IN
        /\ tiers' = r.tiers
        /\ \E l \in [1..Cardinality(r.ret) -> r.ret] :
            /\ \A i \in DOMAIN l : \A j \in DOMAIN l : l[i] = l[j] => i = j
            /\ call' = RetList("keys", "", l, MLStored(tiers) \ MLStored(r.tiers))
    /\ UNCHANGED <<kind, globals, now, mem, fc, dir, written, hist, stats, backends,
                   writer>>

ManagerOps(keys, values, ttls, names) ==
    \/ \E key \in keys, value \in values, ttl \in ttls, backend \in names :
          ManagerSet(key, value, ttl, backend) /\ UNCHANGED hist
    \/ \E key \in keys, backend \in names :
          ManagerGet(key, backend) /\ UNCHANGED hist
    \/ \E key \in keys, backend \in names :
          ManagerDelete(key, backend) /\ UNCHANGED hist
    \/ \E backend \in names : ManagerClear(backend) /\ UNCHANGED hist
    \/ ManagerResetStats /\ UNCHANGED hist

MultiLevelOps(keys, values, ttls) ==
    \/ \E key \in keys, value \in values, ttl \in ttls : MultiLevelSet(key, value, ttl)
    \/ \E key \in keys : MultiLevelGet(key)
    \/ \E key \in keys : MultiLevelDelete(key)
    \/ \E key \in keys : MultiLevelExists(key)
    \/ MultiLevelClear
    \/ MultiLevelKeys

MgrNext ==
    \/ Tick
    \/ Return
    \/ ManagerOps(Keys, MgrValues, MgrTtlArgs, BackendArgs)
    \/ MultiLevelOps(Keys, MgrValues, MgrTtlArgs)

MgrSpec == MgrInit /\ [][MgrNext]_vars

\* -------------------------------------------------------------- PersistSpec
\* One directory, and FileCache instances constructed on it one after the
\* other (a process that restarts): each has the serializer of the first.
PersistInit == InitFile(PersistDefaultTTLs, Serializers)

\* FileCache(cache_dir, default_ttl, serializer) on the directory as it is:
\* mkdir(exist_ok=True) leaves the files alone.
Reopen(default_ttl) ==
    /\ kind = "file" /\ call.op = "idle"
    /\ Len(hist) < MaxReopen
    /\ fc' = NewFileCache(default_ttl, fc.serializer)
    /\ hist' = Append(hist, [op |-> "FileCache", key |-> "", hit |-> FALSE])
    /\ UNCHANGED <<kind, globals, now, mem, dir, call, written, stats, tiers, backends,
                   writer>>

PersistNext ==
    \/ Tick
    \/ Return
    \/ FileOps(PersistKeys, PersistValues, PersistTtlArgs)
    \/ \E d \in PersistDefaultTTLs : Reopen(d)

PersistSpec == PersistInit /\ [][PersistNext]_vars

\* ------------------------------------------------------------ SharedDirSpec
\* Two FileCache instances on one directory, constructed with the same
\* arguments, each with its own lock: fc, whose calls are the reader's, and a
\* second one that runs set.  The second instance's set is two steps, as
\* seen from the directory: open(cache_file, 'wb') leaves the file empty, and
\* leaving the with block has the pickle in it.  The reader's operations
\* run between those steps; it does not create files.
WriterOpen(key, value, ttl) ==
    /\ kind = "file" /\ writer.pc = "idle"
    /\ LET f == get_cache_file(key) IN
        /\ writer' = [pc |-> "open", key |-> key,
                      contents |-> [pickled |-> TRUE,
                                    value |-> serialize(fc, value),
                                    created_at |-> now,
                                    expires_at |-> FileExpiresAt(fc, ttl, now)],
                      before |-> IF f \in DOMAIN dir THEN dir[f] ELSE Garbage]
        /\ dir' = WriteFile(dir, f, Garbage)
    /\ written' = Forget({key})
    /\ UNCHANGED <<kind, globals, now, mem, fc, call, hist, stats, tiers, backends>>

\* pickle.dump and close: the bytes go to the file that was opened, which is
\* no longer in the directory when somebody unlinked it in between.
WriterClose ==
    /\ kind = "file" /\ writer.pc = "open"
    /\ dir' = IF get_cache_file(writer.key) \in DOMAIN dir
              THEN WriteFile(dir, get_cache_file(writer.key), writer.contents)
              ELSE dir
    /\ writer' = NoWrite
    /\ UNCHANGED <<kind, globals, now, mem, fc, call, written, hist, stats, tiers,
                   backends>>

SharedDirInit == InitFile({None}, {"pickle"})

SharedDirNext ==
    \/ Tick
    \/ Return
    \/ \E key \in Keys, value \in SharedValues, ttl \in SharedTtlArgs :
          WriterOpen(key, value, ttl)
    \/ WriterClose
    \/ \E key \in Keys : FileCacheGet(key)
    \/ \E key \in Keys : FileCacheExists(key)
    \/ \E key \in Keys : FileCacheDelete(key)
    \/ FileCacheClear
    \/ FileCacheKeys

SharedDirSpec == SharedDirInit /\ [][SharedDirNext]_vars

\* ------------------------------------------------------------------ MLSpec
\* A MultiLevelCache over two tiers, [fast, slow]: a MemoryCache of one
\* entry over a MemoryCache that holds every key.  One of the two may be a
\* backend that raises on every operation; the healthy ones are also written
\* and cleared directly, past the composite.
MLInit ==
    /\ kind = "multilevel"
    /\ globals = NoGlobals
    /\ now = 0
    /\ mem = NewMemoryCache(1, None)
    /\ fc = NewFileCache(None, "pickle")
    /\ dir = << >>
    /\ call = NoCall
    /\ written = << >>
    /\ hist = << >>
    /\ stats = NewStats
    /\ backends = << >>
    /\ writer = NoWrite
    /\ \E d \in MLDefaultTTLs, faulty \in MLFaults :
          tiers = << Tier(NewMemoryCache(1, d), faulty[1]),
                     Tier(NewMemoryCache(MaxSize, None), faulty[2]) >>

\* self.caches[j].set(key, value, ttl), called on the tier itself.
TierSet(j, key, value, ttl) ==
    /\ kind = "multilevel" /\ call.op = "idle"
    /\ j \in DOMAIN tiers /\ tiers[j].faulty = "never"
    /\ tiers' = [tiers EXCEPT ![j] = MemSet(@, key, value, ttl, now, now, now)]
    /\ call' = RetNone("tier.set", key, MLStored(tiers) \ MLStored(tiers'))
    /\ written' = Forget({key} \cup (MLStored(tiers) \ MLStored(tiers')))
    /\ UNCHANGED <<kind, globals, now, mem, fc, dir, hist, stats, backends, writer>>

\* self.caches[j].clear(), called on the tier itself.
TierClear(j) ==
    /\ kind = "multilevel" /\ call.op = "idle"
    /\ j \in DOMAIN tiers /\ tiers[j].faulty = "never"
    /\ tiers[j].cache # << >>
    /\ tiers' = [tiers EXCEPT ![j] = MemClear(@)]
    /\ call' = RetNone("tier.clear", "", MLStored(tiers) \ MLStored(tiers'))
    /\ written' = << >>
    /\ UNCHANGED <<kind, globals, now, mem, fc, dir, hist, stats, backends, writer>>

\* The clock of MLSpec.
MLTick ==
    /\ call.op = "idle"
    /\ now < MLMaxTime
    /\ now' = now + 1
    /\ UNCHANGED <<kind, globals, mem, fc, dir, call, written, hist, stats, tiers,
                   backends, writer>>

MLNext ==
    \/ MLTick
    \/ Return
    \/ MultiLevelOps(Keys, MLValues, MLTtlArgs)
    \/ \E j \in 1..2, key \in Keys, value \in MLValues, ttl \in MLTtlArgs :
          TierSet(j, key, value, ttl)
    \/ \E j \in 1..2 : TierClear(j)

MLSpec == MLInit /\ [][MLNext]_vars

\* ----------------------------------------------------------------- RegSpec
\* A CacheManager with its default backend and two more MemoryCache objects
\* (tiers) that are registered, under the names of RegNames, in any order
\* and any number of times.
RegInit ==
    /\ kind = "manager"
    /\ globals = NoGlobals
    /\ now = 0
    /\ mem = NewMemoryCache(MaxSize, None)
    /\ fc = NewFileCache(None, "pickle")
    /\ dir = << >>
    /\ call = NoCall
    /\ written = << >>
    /\ hist = << >>
    /\ stats = NewStats
    /\ backends = << >>
    /\ writer = NoWrite
    /\ tiers = << Tier(NewMemoryCache(MaxSize, None), "never"),
                  Tier(NewMemoryCache(MaxSize, None), "never") >>

RegNext ==
    \/ Return
    \/ \E name \in RegNames \ {""}, j \in 1..2 :
          ManagerRegister(name, j) /\ UNCHANGED hist
    \/ \E name \in RegNames : ManagerGetBackend(name) /\ UNCHANGED hist
    \/ ManagerOps(RegKeys, RegValues, RegTtlArgs, RegNames)

RegSpec == RegInit /\ [][RegNext]_vars

\* ---------------------------------------------------------------- StatSpec
\* One thread running CacheManager operations, some on a backend name that
\* is not registered.  hist tallies what the caller saw since construction
\* or the last reset_stats: <<gets that returned a value, gets that returned
\* None, gets that raised, sets that completed, deletes that returned True>>.
NoTally == <<0, 0, 0, 0, 0>>

Tally(h, c) ==
    IF c.op = "reset_stats" THEN NoTally
    ELSE IF c.op = "get" /\ c.exc # "" THEN [h EXCEPT ![3] = @ + 1]
    ELSE IF c.op = "get" /\ c.val # None THEN [h EXCEPT ![1] = @ + 1]
    ELSE IF c.op = "get" THEN [h EXCEPT ![2] = @ + 1]
    ELSE IF c.op = "set" /\ c.exc = "" THEN [h EXCEPT ![4] = @ + 1]
    ELSE IF c.op = "delete" /\ c.exc = "" /\ c.ok THEN [h EXCEPT ![5] = @ + 1]
    ELSE h

StatInit ==
    /\ kind = "manager"
    /\ globals = NoGlobals
    /\ now = 0
    /\ mem = NewMemoryCache(MaxSize, None)
    /\ fc = NewFileCache(None, "pickle")
    /\ dir = << >>
    /\ call = NoCall
    /\ written = << >>
    /\ hist = NoTally
    /\ stats = NewStats
    /\ backends = << >>
    /\ writer = NoWrite
    /\ tiers = << Tier(NewMemoryCache(MaxSize, None), "never") >>

StatNext ==
    \/ Return
    \/ ManagerRegister("x", 1) /\ UNCHANGED hist
    \/ \E key \in Keys, value \in StatValues, backend \in StatNames :
          ManagerSet(key, value, UNSET, backend) /\ hist' = Tally(hist, call')
    \/ \E key \in Keys, backend \in StatNames :
          ManagerGet(key, backend) /\ hist' = Tally(hist, call')
    \/ \E key \in Keys, backend \in StatNames :
          ManagerDelete(key, backend) /\ hist' = Tally(hist, call')
    \/ \E backend \in StatNames :
          ManagerClear(backend) /\ hist' = Tally(hist, call')
    \/ ManagerResetStats /\ hist' = Tally(hist, call')

StatSpec == StatInit /\ [][StatNext]_vars

\* ---------------------------------------------------------------- DecoSpec
\* Functions decorated with cache_result, on a CacheManager of their own
\* over MemoryCache(): a function is its __module__ and __name__ and the
\* decorator's arguments (key_func "" and backend "" are the ones left at
\* None); timed is decorated with timed_cache(1), and lookup names a backend
\* that is not registered.
DefaultMaxSize == 1000

Func(name, ttl, key_func, backend) ==
    [module |-> "app", name |-> name, ttl |-> ttl, key_func |-> key_func,
     backend |-> backend]

PyCall(func, args, kwargs) == [func |-> func, args |-> args, kwargs |-> kwargs]

\* What the decorated function computes: the number of arguments it was
\* given, None for none.
Result(c) ==
    IF c.args = << >> /\ c.kwargs = << >> THEN None
    ELSE Len(c.args) + Len(c.kwargs)

\* The key the wrapper derives for a call.
CacheKey(c) ==
    IF c.func.key_func # "" THEN custom_key(c.args, c.kwargs)
    ELSE generate_cache_key(c.func, c.args, c.kwargs)

\* manager.get(key, backend) on the state as it is: the exception raised,
\* the value returned, the backend and the counters after it.
manager_get(key, backend) ==
    IF BackendKnown(backend)
    THEN LET r == MemGet(Backend(backend), key, now, now) IN
         [exc |-> "", ret |-> r.ret, m |-> r.m,
          stats |-> IF r.ret # None THEN [stats EXCEPT !.hits = @ + 1]
                    ELSE [stats EXCEPT !.misses = @ + 1]]
    ELSE [exc |-> "CacheError", ret |-> None, m |-> Backend(backend),
          stats |-> [stats EXCEPT !.misses = @ + 1]]

\* manager.set(key, value, ttl, backend) on the backend m and counters st.
manager_set(m, st, key, value, ttl, backend) ==
    IF BackendKnown(backend)
    THEN [exc |-> "", m |-> MemSet(m, key, value, ttl, now, now, now),
          stats |-> [st EXCEPT !.sets = @ + 1]]
    ELSE [exc |-> "CacheError", m |-> m, stats |-> st]

\* One call of the wrapper cache_result puts around func.  The wrapper
\* says nothing of hist: the specification that runs it does.
Wrapper(c) ==
    /\ kind = "manager" /\ call.op = "idle"
    /\ LET cache_key == CacheKey(c)
           g == manager_get(cache_key, c.func.backend)
           result == Result(c)
           s == manager_set(g.m, g.stats, cache_key, result, c.func.ttl,
                            c.func.backend)
           old == Backend(c.func.backend)
       IN IF ExceptPass(g.exc) # ""
          THEN /\ g.stats.misses <= MaxStat
               /\ BackendBecomes(c.func.backend, g.m)
               /\ stats' = g.stats
               /\ call' = Raised("wrapper", cache_key, ExceptPass(g.exc),
                                 MemGone(old, g.m))
               /\ written' = Forget(MemGone(old, g.m))
          ELSE IF g.exc = "" /\ g.ret # None
          THEN /\ g.stats.hits <= MaxStat
               /\ BackendBecomes(c.func.backend, g.m)
               /\ stats' = g.stats
               /\ call' = RetVal("wrapper", cache_key, g.ret, MemGone(old, g.m))
               /\ written' = Forget(MemGone(old, g.m))
          ELSE /\ s.stats.misses <= MaxStat /\ s.stats.sets <= MaxStat
               /\ BackendBecomes(c.func.backend, s.m)
               /\ stats' = s.stats
               /\ call' =
                    IF ExceptPass(s.exc) # ""
                    THEN [Raised("wrapper", cache_key, ExceptPass(s.exc),
                                 MemGone(old, s.m)) EXCEPT !.ran = 1]
                    ELSE [RetVal("wrapper", cache_key, result,
                                 MemGone(old, s.m)) EXCEPT !.ran = 1]
               /\ written' =
                    IF s.exc = ""
                    THEN WrittenAfterSet(MemGone(old, s.m), cache_key, result,
                                         c.func.ttl)
                    ELSE Forget(MemGone(old, s.m))
    /\ UNCHANGED <<kind, globals, now, fc, dir, backends, writer>>

\* timed(), timed(1) and lookup(1)
DecoCalls ==
    {PyCall(Func("timed", 1, "", ""), << >>, << >>),
     PyCall(Func("timed", 1, "", ""), <<1>>, << >>),
     PyCall(Func("lookup", None, "", "x"), <<1>>, << >>)}

DecoInit ==
    /\ kind = "manager"
    /\ globals = NoGlobals
    /\ now = 0
    /\ mem = NewMemoryCache(DefaultMaxSize, None)
    /\ fc = NewFileCache(None, "pickle")
    /\ dir = << >>
    /\ call = NoCall
    /\ written = << >>
    /\ hist = << >>
    /\ stats = NewStats
    /\ backends = << >>
    /\ writer = NoWrite
    /\ tiers = << >>

DecoNext ==
    \/ Tick
    \/ Return
    \/ ManagerResetStats /\ UNCHANGED hist
    \/ \E c \in DecoCalls : Wrapper(c) /\ UNCHANGED hist

DecoSpec == DecoInit /\ [][DecoNext]_vars

\* ----------------------------------------------------------------- KeySpec
\* Calls that differ in the order of their keyword arguments, in their
\* positional arguments, or in arguments the key function ignores: compute
\* with the default key, get_user_data with custom_key.  hist is the calls
\* made so far.
KeyCalls ==
    {PyCall(Func("compute", None, "", ""), << >>,
            <<[k |-> "a", v |-> 1], [k |-> "b", v |-> 2]>>),
     PyCall(Func("compute", None, "", ""), << >>,
            <<[k |-> "b", v |-> 2], [k |-> "a", v |-> 1]>>),
     PyCall(Func("compute", None, "", ""), <<1>>, << >>),
     PyCall(Func("get_user_data", None, "custom_key", ""), <<1>>, << >>),
     PyCall(Func("get_user_data", None, "custom_key", ""), <<1>>,
            <<[k |-> "a", v |-> 1]>>)}

KeyNext ==
    \/ Return
    \/ ManagerResetStats /\ UNCHANGED hist
    \/ \E c \in KeyCalls :
          /\ Len(hist) < MaxOps
          /\ Wrapper(c)
          /\ hist' = Append(hist, c)

KeySpec == DecoInit /\ [][KeyNext]_vars

\* -------------------------------------------------------------- ThreadSpec
\* Two threads calling get, set and reset_stats of one CacheManager over a
\* MemoryCache.  The backend operation runs under the backend's lock, in one
\* step.  The CacheManager has no lock: self._stats[c] += 1 is the three
\* steps of its bytecode, d = self._stats, v = d[c], d[c] = v + 1, and the
\* threads interleave between them.  reset_stats is one store to the
\* attribute.  hist[t] is thread t: where it is (pc), the counter its call
\* increments, whether the dict d it holds is one reset_stats has replaced
\* (stale), the v it read, whether its call began after the last
\* reset_stats (since), and n, per counter, the calls of t that began after
\* the last reset_stats and have returned.
Threads == {1, 2}

IdleThread ==
    [pc |-> "idle", counter |-> "sets", stale |-> FALSE, read |-> 0,
     since |-> TRUE, n |-> NewStats]

ThreadInit ==
    /\ kind = "manager"
    /\ globals = NoGlobals
    /\ now = 0
    /\ mem = NewMemoryCache(MaxSize, None)
    /\ fc = NewFileCache(None, "pickle")
    /\ dir = << >>
    /\ call = NoCall
    /\ written = << >>
    /\ hist = [t \in Threads |-> IdleThread]
    /\ stats = NewStats
    /\ backends = << >>
    /\ writer = NoWrite
    /\ tiers = << >>

\* Thread t has run the backend operation of its call and is about to
\* increment counter.
ThreadCounts(t, counter) ==
    /\ hist[t].pc = "idle"
    /\ hist[t].n[counter] < MaxStat
    /\ hist' = [hist EXCEPT ![t] = [@ EXCEPT !.pc = "load",
                                            !.counter = counter,
                                            !.since = TRUE]]

\* set: cache = self.get_backend(None); cache.set(key, value, None)
ThreadSet(t, key, value) ==
    /\ ThreadCounts(t, "sets")
    /\ mem' = MemSet(mem, key, value, None, now, now, now)
    /\ UNCHANGED <<kind, globals, now, fc, dir, call, written, stats, tiers, backends,
                   writer>>

\* get: cache = self.get_backend(None); value = cache.get(key)
ThreadGet(t, key) ==
    /\ LET r == MemGet(mem, key, now, now) IN
        /\ ThreadCounts(t, IF r.ret # None THEN "hits" ELSE "misses")
        /\ mem' = r.m
    /\ UNCHANGED <<kind, globals, now, fc, dir, call, written, stats, tiers, backends,
                   writer>>

\* d = self._stats
ThreadLoad(t) ==
    /\ hist[t].pc = "load"
    /\ hist' = [hist EXCEPT ![t] = [@ EXCEPT !.pc = "read", !.stale = FALSE]]
    /\ UNCHANGED <<kind, globals, now, mem, fc, dir, call, written, stats, tiers,
                   backends, writer>>

\* v = d[counter]; what a replaced dict holds no longer matters
ThreadRead(t) ==
    /\ hist[t].pc = "read"
    /\ hist' = [hist EXCEPT ![t] =
                  [@ EXCEPT !.pc = "write",
                            !.read = IF hist[t].stale THEN 0
                                      ELSE stats[hist[t].counter]]]
    /\ UNCHANGED <<kind, globals, now, mem, fc, dir, call, written, stats, tiers,
                   backends, writer>>

\* d[counter] = v + 1, and the call returns
ThreadWrite(t) ==
    /\ hist[t].pc = "write"
    /\ stats' = IF hist[t].stale THEN stats
                ELSE [stats EXCEPT ![hist[t].counter] = hist[t].read + 1]
    /\ hist' = [hist EXCEPT ![t] =
                  [@ EXCEPT !.pc = "idle",
                            !.n = IF hist[t].since
                                  THEN [@ EXCEPT ![hist[t].counter] = @ + 1]
                                  ELSE @]]
    /\ UNCHANGED <<kind, globals, now, mem, fc, dir, call, written, tiers, backends,
                   writer>>

\* reset_stats, called by thread t: self._stats = {...}
ThreadResetStats(t) ==
    /\ hist[t].pc = "idle"
    /\ stats' = NewStats
    /\ hist' = [u \in Threads |->
                  [hist[u] EXCEPT !.stale = hist[u].pc \in {"read", "write"},
                                  !.since = hist[u].pc = "idle",
                                  !.n = NewStats]]
    /\ UNCHANGED <<kind, globals, now, mem, fc, dir, call, written, tiers, backends,
                   writer>>

ThreadNext ==
    \/ \E t \in Threads, key \in RegKeys, value \in RegValues :
          ThreadSet(t, key, value)
    \/ \E t \in Threads, key \in RegKeys : ThreadGet(t, key)
    \/ \E t \in Threads : ThreadLoad(t)
    \/ \E t \in Threads : ThreadRead(t)
    \/ \E t \in Threads : ThreadWrite(t)
    \/ \E t \in Threads : ThreadResetStats(t)

ThreadSpec == ThreadInit /\ [][ThreadNext]_vars

\* -------------------------------------------------------------- GlobalSpec
\* Two threads calling get_cache_manager(), and init_cache_manager(backend)
\* called while no call is running.  _get_global_cache_manager holds no
\* lock; its steps are the test of the global, CacheManager(), the store to
\* the global, and the read of the global for the return.  hist[t] is thread
\* t: where it is (pc), the instance it has constructed (local) and the
\* instance its last get_cache_manager() since the last init_cache_manager
\* returned (got).  A manager is the default_backend it was given: None for
\* the MemoryCache() it makes itself, else the backend object passed.
GlobalBackends == {None, 1}

IdleCaller == [pc |-> "idle", local |-> None, got |-> None]

GlobalInit ==
    /\ kind = "manager"
    /\ globals = NoGlobals
    /\ now = 0
    /\ mem = NewMemoryCache(DefaultMaxSize, None)
    /\ fc = NewFileCache(None, "pickle")
    /\ dir = << >>
    /\ call = NoCall
    /\ written = << >>
    /\ hist = [t \in Threads |-> IdleCaller]
    /\ stats = NewStats
    /\ backends = << >>
    /\ writer = NoWrite
    /\ tiers = << >>

\* if _global_cache_manager is None:
GlobalTest(t) ==
    /\ hist[t].pc = "idle"
    /\ hist' = [hist EXCEPT ![t].pc =
                  IF globals.cache_manager = None THEN "make" ELSE "return"]
    /\ UNCHANGED <<kind, globals, now, mem, fc, dir, call, written, stats,
                   tiers, backends, writer>>

\* CacheManager()
GlobalMake(t) ==
    /\ hist[t].pc = "make"
    /\ Len(globals.managers) < MaxManagers
    /\ globals' = [globals EXCEPT
                     !.managers = Append(@, [default_backend |-> None])]
    /\ hist' = [hist EXCEPT ![t].pc = "store",
                            ![t].local = Len(globals.managers) + 1]
    /\ UNCHANGED <<kind, now, mem, fc, dir, call, written, stats, tiers,
                   backends, writer>>

\* _global_cache_manager = <the new instance>
GlobalStore(t) ==
    /\ hist[t].pc = "store"
    /\ globals' = [globals EXCEPT !.cache_manager = hist[t].local]
    /\ hist' = [hist EXCEPT ![t].pc = "return"]
    /\ UNCHANGED <<kind, now, mem, fc, dir, call, written, stats, tiers,
                   backends, writer>>

\* return _global_cache_manager
GlobalReturn(t) ==
    /\ hist[t].pc = "return"
    /\ hist' = [hist EXCEPT ![t].pc = "idle",
                            ![t].got = globals.cache_manager]
    /\ UNCHANGED <<kind, globals, now, mem, fc, dir, call, written, stats,
                   tiers, backends, writer>>

\* init_cache_manager(default_backend), with no other call running
InitCacheManager(default_backend) ==
    /\ \A t \in Threads : hist[t].pc = "idle"
    /\ Len(globals.managers) < MaxManagers
    /\ globals' =
          [cache_manager |-> Len(globals.managers) + 1,
           managers |-> Append(globals.managers,
                               [default_backend |-> default_backend])]
    /\ hist' = [t \in Threads |-> IdleCaller]
    /\ UNCHANGED <<kind, now, mem, fc, dir, call, written, stats, tiers,
                   backends, writer>>

GlobalNext ==
    \/ \E t \in Threads : GlobalTest(t)
    \/ \E t \in Threads : GlobalMake(t)
    \/ \E t \in Threads : GlobalStore(t)
    \/ \E t \in Threads : GlobalReturn(t)
    \/ \E default_backend \in GlobalBackends : InitCacheManager(default_backend)

GlobalSpec == GlobalInit /\ [][GlobalNext]_vars

\* ---------------------------------------------------------------- LockSpec
\* Two threads calling the operations of one MemoryCache(max_size=1).  Every
\* operation is "with self._lock:" around its statements, and the threads
\* interleave between statements.  self._lock is an RLock: it is the number
\* of times each thread holds it (held), and a thread can acquire it when no
\* other thread holds it.  hist[t] is thread t: where it is (pc), its call
\* (op, key, value, ttl), the cache as it was when the call got the lock
\* (snap), the clock readings of the call (t1, t2), the key of the delete it
\* is calling and where that returns to (todo, after), the expired keys the
\* call has still to delete, and what the call returns (val, ok, list).
IdleLocker ==
    [pc |-> "idle", op |-> "", key |-> "", value |-> None, ttl |-> UNSET,
     held |-> 0, snap |-> NewMemoryCache(1, None), t1 |-> 0, t2 |-> 0,
     todo |-> "", after |-> "", expired |-> << >>,
     val |-> None, ok |-> FALSE, list |-> << >>]

LockInit ==
    /\ kind = "memory"
    /\ globals = NoGlobals
    /\ now = 0
    /\ mem = NewMemoryCache(1, None)
    /\ fc = NewFileCache(None, "pickle")
    /\ dir = << >>
    /\ call = NoCall
    /\ written = << >>
    /\ hist = [t \in Threads |-> IdleLocker]
    /\ stats = NewStats
    /\ backends = << >>
    /\ writer = NoWrite
    /\ tiers = << >>

\* A lock any thread can take at any time.
CanAcquire_NoLock(t) == TRUE

\* A threading.Lock: not even its holder can take it again.
CanAcquire_NotReentrant(t) == \A u \in Threads : hist[u].held = 0

\* RLock.acquire by thread t does not block.
CanAcquire(t) == \A u \in Threads \ {t} : hist[u].held = 0

\* Thread t goes on as rec and the cache becomes m.
Locker(t, rec, m) ==
    /\ hist' = [hist EXCEPT ![t] = rec]
    /\ mem' = m
    /\ UNCHANGED <<kind, globals, now, fc, dir, call, written, stats, tiers,
                   backends, writer>>

\* Thread t calls an operation and reaches its "with self._lock:".
LockCall(t, op, key, value, ttl) ==
    /\ hist[t].pc = "idle"
    /\ Locker(t, [IdleLocker EXCEPT !.pc = "acquire", !.op = op, !.key = key,
                                    !.value = value, !.ttl = ttl], mem)

\* with self._lock: of the operation called
LockAcquire(t) ==
    /\ hist[t].pc = "acquire"
    /\ CanAcquire(t)
    /\ Locker(t, [hist[t] EXCEPT
                    !.held = 1, !.snap = mem, !.todo = hist[t].key,
                    !.after = "release",
                    !.pc = CASE hist[t].op = "set" -> "set.check"
                             [] hist[t].op = "get" -> "get.check"
                             [] hist[t].op = "exists" -> "exists.check"
                             [] hist[t].op = "delete" -> "del.cache"
                             [] hist[t].op = "clear" -> "clear.cache"
                             [] hist[t].op = "keys" -> "keys.scan"], mem)

\* set: the capacity test; _evict_lru picks the key and calls delete
SetCheck(t) ==
    /\ hist[t].pc = "set.check"
    /\ Locker(t, IF /\ Len(mem.cache) >= mem.max_size
                    /\ ~DictHas(mem.cache, hist[t].key)
                    /\ mem.access_times # << >>
                 THEN [hist[t] EXCEPT !.pc = "del.acquire",
                                      !.todo = lru_key(mem),
                                      !.after = "set.store"]
                 ELSE [hist[t] EXCEPT !.pc = "set.store"], mem)

\* set: self._cache[key] = {...}
SetStore(t) ==
    /\ hist[t].pc = "set.store"
    /\ Locker(t, [hist[t] EXCEPT !.pc = "set.touch", !.t1 = now],
              [mem EXCEPT !.cache = DictPut(@, hist[t].key,
                    [value |-> hist[t].value, created_at |-> now,
                     expires_at |-> MemExpiresAt(mem, hist[t].ttl, now)])])

\* set: self._access_times[key] = time.time()
SetTouch(t) ==
    /\ hist[t].pc = "set.touch"
    /\ Locker(t, [hist[t] EXCEPT !.pc = "release", !.t2 = now],
              [mem EXCEPT !.access_times = DictPut(@, hist[t].key, now)])

\* get: the membership and expiry tests
GetCheck(t) ==
    /\ hist[t].pc = "get.check"
    /\ Locker(t, IF ~DictHas(mem.cache, hist[t].key)
                 THEN [hist[t] EXCEPT !.pc = "release"]
                 ELSE IF is_expired(DictGet(mem.cache, hist[t].key), now)
                 THEN [hist[t] EXCEPT !.pc = "del.acquire", !.t1 = now,
                                      !.after = "release"]
                 ELSE [hist[t] EXCEPT !.pc = "get.touch", !.t1 = now], mem)

\* get: self._access_times[key] = time.time(); return cache_item['value']
GetTouch(t) ==
    /\ hist[t].pc = "get.touch"
    /\ Locker(t, [hist[t] EXCEPT !.pc = "release", !.t2 = now,
                                 !.val = DictGet(mem.cache, hist[t].key).value],
              [mem EXCEPT !.access_times = DictPut(@, hist[t].key, now)])

\* exists: the membership and expiry tests
ExistsCheck(t) ==
    /\ hist[t].pc = "exists.check"
    /\ Locker(t, IF ~DictHas(mem.cache, hist[t].key)
                 THEN [hist[t] EXCEPT !.pc = "release"]
                 ELSE IF is_expired(DictGet(mem.cache, hist[t].key), now)
                 THEN [hist[t] EXCEPT !.pc = "del.acquire", !.t1 = now,
                                      !.after = "release"]
                 ELSE [hist[t] EXCEPT !.pc = "release", !.t1 = now,
                                      !.ok = TRUE], mem)

\* with self._lock: of a delete called by an operation that holds the lock
DelAcquire(t) ==
    /\ hist[t].pc = "del.acquire"
    /\ CanAcquire(t)
    /\ Locker(t, [hist[t] EXCEPT !.pc = "del.cache", !.held = @ + 1], mem)

\* delete: if key in self._cache: del self._cache[key]
DelCache(t) ==
    /\ hist[t].pc = "del.cache"
    /\ Locker(t, IF DictHas(mem.cache, hist[t].todo)
                 THEN [hist[t] EXCEPT !.pc = "del.access"]
                 ELSE [hist[t] EXCEPT !.pc = "release"],
              [mem EXCEPT !.cache = DictDel(@, hist[t].todo)])

\* delete: self._access_times.pop(key, None); return True -- the value
\* returned is the operation's own when the caller called delete
DelAccess(t) ==
    /\ hist[t].pc = "del.access"
    /\ Locker(t, [hist[t] EXCEPT !.pc = "release",
                                 !.ok = (hist[t].op = "delete")],
              [mem EXCEPT !.access_times = DictDel(@, hist[t].todo)])

\* clear: self._cache.clear()
ClearCache(t) ==
    /\ hist[t].pc = "clear.cache"
    /\ Locker(t, [hist[t] EXCEPT !.pc = "clear.access"],
              [mem EXCEPT !.cache = << >>])

\* clear: self._access_times.clear()
ClearAccess(t) ==
    /\ hist[t].pc = "clear.access"
    /\ Locker(t, [hist[t] EXCEPT !.pc = "release"],
              [mem EXCEPT !.access_times = << >>])

\* keys: the loop that collects expired_keys
KeysScan(t) ==
    /\ hist[t].pc = "keys.scan"
    /\ LET idx == SelectSeq([i \in DOMAIN mem.cache |-> i],
                            LAMBDA i : is_expired(mem.cache[i].v, now))
       IN Locker(t, [hist[t] EXCEPT
                       !.pc = "keys.purge", !.t1 = now,
                       !.expired = [j \in DOMAIN idx |-> mem.cache[idx[j]].k]],
                 mem)

\* keys: for key in expired_keys: self.delete(key); then the list
KeysPurge(t) ==
    /\ hist[t].pc = "keys.purge"
    /\ Locker(t, IF hist[t].expired # << >>
                 THEN [hist[t] EXCEPT !.pc = "del.acquire",
                                      !.todo = Head(hist[t].expired),
                                      !.expired = Tail(@),
                                      !.after = "keys.purge"]
                 ELSE [hist[t] EXCEPT !.pc = "release",
                                      !.list = DictKeyList(mem.cache)], mem)

\* The end of a "with self._lock:": of a delete called under the lock,
\* which returns to its caller, or of the operation, which returns.
LockRelease(t) ==
    /\ hist[t].pc = "release"
    /\ Locker(t, IF hist[t].held = 1 THEN IdleLocker
                 ELSE [hist[t] EXCEPT !.held = @ - 1, !.pc = hist[t].after],
              mem)

\* What thread t does next inside the operation it has called.
LockStep(t) ==
    \/ SetCheck(t) \/ SetStore(t) \/ SetTouch(t)
    \/ GetCheck(t) \/ GetTouch(t)
    \/ ExistsCheck(t)
    \/ DelCache(t) \/ DelAccess(t)
    \/ ClearCache(t) \/ ClearAccess(t)
    \/ KeysScan(t) \/ KeysPurge(t)
    \/ LockRelease(t)

LockCalls(t) ==
    \/ \E key \in Keys, value \in LockValues, ttl \in LockTtlArgs :
          LockCall(t, "set", key, value, ttl)
    \/ \E key \in Keys, op \in {"get", "exists", "delete"} :
          LockCall(t, op, key, None, UNSET)
    \/ \E op \in {"clear", "keys"} : LockCall(t, op, "", None, UNSET)

LockNext ==
    \/ MLTick
    \/ \E t \in Threads : LockCalls(t)
    \/ \E t \in Threads : LockAcquire(t)
    \/ \E t \in Threads : DelAcquire(t)
    \/ \E t \in Threads : LockStep(t)

LockSpec == LockInit /\ [][LockNext]_vars

\* Fair scheduling: a thread that can take a step of its operation
\* eventually takes it, and a thread waiting for the lock gets it if the
\* lock keeps becoming free.
LockFairSpec ==
    /\ LockSpec
    /\ \A t \in Threads : WF_vars(LockStep(t))
    /\ \A t \in Threads : WF_vars(DelAcquire(t))
    /\ \A t \in Threads : SF_vars(LockAcquire(t))

\* ---------------------------------------------------------------- FaultSpec
\* A CacheManager with a backend registered as "x" whose operations raise
\* CacheError in some calls and work in others (a RedisCache on a server
\* that comes and goes); "y" is not registered.
FaultInit ==
    /\ kind = "manager"
    /\ globals = NoGlobals
    /\ now = 0
    /\ mem = NewMemoryCache(MaxSize, None)
    /\ fc = NewFileCache(None, "pickle")
    /\ dir = << >>
    /\ call = NoCall
    /\ written = << >>
    /\ hist = << >>
    /\ stats = NewStats
    /\ backends = register_backend(<< >>, "x", 1)
    /\ writer = NoWrite
    /\ tiers = << Tier(NewMemoryCache(MaxSize, None), "sometimes") >>

FaultNext ==
    \/ Return
    \/ ManagerOps(RegKeys, RegValues, RegTtlArgs, RegNames)

FaultSpec == FaultInit /\ [][FaultNext]_vars

\* ------------------------------------------------------------ TransientSpec
\* A MultiLevelCache over two tiers each of which raises in some calls and
\* works in others.
TransientInit ==
    /\ kind = "multilevel"
    /\ globals = NoGlobals
    /\ now = 0
    /\ mem = NewMemoryCache(1, None)
    /\ fc = NewFileCache(None, "pickle")
    /\ dir = << >>
    /\ call = NoCall
    /\ written = << >>
    /\ hist = << >>
    /\ stats = NewStats
    /\ backends = << >>
    /\ writer = NoWrite
    /\ tiers = << Tier(NewMemoryCache(MaxSize, None), "sometimes"),
                  Tier(NewMemoryCache(MaxSize, None), "sometimes") >>

TransientNext ==
    \/ Return
    \/ MultiLevelOps(Keys, SharedValues, {UNSET})

TransientSpec == TransientInit /\ [][TransientNext]_vars

\* ------------------------------------------------------------- TierLockSpec
\* Two threads calling get and set of one MultiLevelCache over two healthy
\* MemoryCache tiers, the first of one entry.  Both methods are
\* "with self._lock:" around a loop over the tiers; the threads interleave
\* between the calls on the tiers, each of which is atomic under the tier's
\* own lock.  hist[t] is thread t: where it is (pc), its call (op, key,
\* value), how often it holds the composite's RLock (held), the tier its
\* loop is at (i), the tier its write-back is at (j) and the value its get
\* found (val).  written[k] is the last set of k that has returned.
IdleComposite ==
    [pc |-> "idle", op |-> "", key |-> "", value |-> None, held |-> 0,
     i |-> 0, j |-> 0, val |-> None]

TierLockInit ==
    /\ kind = "multilevel"
    /\ globals = NoGlobals
    /\ now = 0
    /\ mem = NewMemoryCache(1, None)
    /\ fc = NewFileCache(None, "pickle")
    /\ dir = << >>
    /\ call = NoCall
    /\ written = << >>
    /\ hist = [t \in Threads |-> IdleComposite]
    /\ stats = NewStats
    /\ backends = << >>
    /\ writer = NoWrite
    /\ tiers = << Tier(NewMemoryCache(1, None), "never"),
                  Tier(NewMemoryCache(MaxSize, None), "never") >>

\* Thread t goes on as rec and the tiers become ts.
Composite(t, rec, ts) ==
    /\ hist' = [hist EXCEPT ![t] = rec]
    /\ tiers' = ts
    /\ UNCHANGED <<kind, globals, now, mem, fc, dir, call, stats, backends,
                   writer>>

\* Thread t calls get or set and reaches its "with self._lock:".
CompositeCall(t, op, key, value) ==
    /\ hist[t].pc = "idle"
    /\ Composite(t, [IdleComposite EXCEPT !.pc = "acquire", !.op = op,
                                          !.key = key, !.value = value], tiers)
    /\ UNCHANGED written

\* with self._lock:
CompositeAcquire(t) ==
    /\ hist[t].pc = "acquire"
    /\ CanAcquire(t)
    /\ Composite(t, [hist[t] EXCEPT !.held = 1, !.i = 1,
                                    !.pc = hist[t].op \o ".tier"], tiers)
    /\ UNCHANGED written

\* set: cache.set(key, value, ttl) on the tier the loop is at, ttl being the
\* parameter's default, None
CompositeSetTier(t) ==
    /\ hist[t].pc = "set.tier"
    /\ Composite(t, IF hist[t].i < Len(tiers)
                    THEN [hist[t] EXCEPT !.i = @ + 1]
                    ELSE [hist[t] EXCEPT !.pc = "release"],
                 [tiers EXCEPT ![hist[t].i] =
                    MemSet(@, hist[t].key, hist[t].value, None, now, now, now)])
    /\ UNCHANGED written

\* get: value = cache.get(key) on the tier the loop is at; a value that is
\* not None ends the loop, and is written back if a tier is above this one
CompositeGetTier(t) ==
    /\ hist[t].pc = "get.tier"
    /\ LET r == MemGet(tiers[hist[t].i], hist[t].key, now, now) IN
       Composite(t, IF r.ret # None
                    THEN [hist[t] EXCEPT !.val = r.ret, !.j = 1,
                                         !.pc = IF hist[t].i > 1 THEN "get.back"
                                                ELSE "release"]
                    ELSE IF hist[t].i < Len(tiers)
                    THEN [hist[t] EXCEPT !.i = @ + 1]
                    ELSE [hist[t] EXCEPT !.pc = "release"],
                 [tiers EXCEPT ![hist[t].i] = r.m])
    /\ UNCHANGED written

\* get: self.caches[j].set(key, value) for the tiers above the one that
\* answered
CompositeWriteBack(t) ==
    /\ hist[t].pc = "get.back"
    /\ Composite(t, IF hist[t].j + 1 < hist[t].i
                    THEN [hist[t] EXCEPT !.j = @ + 1]
                    ELSE [hist[t] EXCEPT !.pc = "release"],
                 [tiers EXCEPT ![hist[t].j] =
                    MemSet(@, hist[t].key, hist[t].val, UNSET, now, now, now)])
    /\ UNCHANGED written

\* The end of "with self._lock:" and the return to the caller.
CompositeRelease(t) ==
    /\ hist[t].pc = "release"
    /\ Composite(t, IdleComposite, tiers)
    /\ written' = IF hist[t].op = "set"
                  THEN [k \in (DOMAIN written) \cup {hist[t].key} |->
                          IF k = hist[t].key
                          THEN [value |-> hist[t].value, ttl |-> None,
                                at |-> now, by |-> 0]
                          ELSE written[k]]
                  ELSE written

TierLockNext ==
    \/ \E t \in Threads, key \in Keys, value \in SharedValues :
          CompositeCall(t, "set", key, value)
    \/ \E t \in Threads, key \in Keys : CompositeCall(t, "get", key, None)
    \/ \E t \in Threads : CompositeAcquire(t)
    \/ \E t \in Threads : CompositeSetTier(t)
    \/ \E t \in Threads : CompositeGetTier(t)
    \/ \E t \in Threads : CompositeWriteBack(t)
    \/ \E t \in Threads : CompositeRelease(t)

TierLockSpec == TierLockInit /\ [][TierLockNext]_vars

\* ---------------------------------------------------------------- ShareSpec
\* Function objects wrapped by cache_result() with the default key, on the
\* shared manager.  A function object has the __module__ and __name__ its
\* def statement gave it, and two objects can have both in common: the
\* functions a factory defines on each of its calls, two static methods
\* named alike in two classes of one module.  id tells the objects apart.
FuncObject(name, id) ==
    [module |-> "app", name |-> name, id |-> id, ttl |-> None,
     key_func |-> "", backend |-> ""]

\* helper as made by the first and by the second call of its factory, and
\* another function, each called with 1 or 2.
ShareCalls ==
    {PyCall(FuncObject(name, id), <<x>>, << >>) :
        name \in {"helper"}, id \in {1, 2}, x \in {1, 2}}
    \cup {PyCall(FuncObject("other", 1), <<1>>, << >>)}

\* hist is the calls made so far, each with whether it ran its function.
ShareNext ==
    \/ Return
    \/ ManagerResetStats /\ UNCHANGED hist
    \/ \E c \in ShareCalls :
          /\ Len(hist) < MaxOps
          /\ Wrapper(c)
          /\ hist' = Append(hist, [call |-> c, ran |-> call'.ran])

ShareSpec == DecoInit /\ [][ShareNext]_vars

\* ----------------------------------------------------------------- CtorSpec
\* MemoryCache.__init__ stores the max_size it is given, whatever it is:
\* the instances constructed with max_size -1, 0 and 1.
CtorSizes == {-1, 0, 1}

CtorInit == InitMemory(CtorSizes, {None})

CtorSpec == CtorInit /\ [][CapNext]_vars

\* -------------------------------------------------------------- properties
\* A step in which operation op returns to the caller.
Returns(op) == call.op = "idle" /\ call'.op = op

\* C1: a MemoryCache built with max_size = n >= 1 never stores more than n
\* entries, whatever sequence of set/get/delete/exists/keys/clear runs on it;
\* and a set of a new key while n entries are stored removes exactly one
\* stored entry and leaves n entries, the new key among them.
C1_EvictsOne ==
    (Returns("set") /\ ~DictHas(mem.cache, call'.key)
                    /\ Len(mem.cache) = mem.max_size)
    => /\ Cardinality(MemGone(mem, mem')) = 1
       /\ DictKeys(mem'.cache) =
            (DictKeys(mem.cache) \ MemGone(mem, mem')) \cup {call'.key}
       /\ Len(mem'.cache) = mem.max_size

C1_SizeBound ==
    /\ Len(mem.cache) <= mem.max_size
    /\ [][Len(mem'.cache) <= mem'.max_size /\ C1_EvictsOne]_vars

\* A set has just evicted from a cache of two entries.
C1_Witness ==
    /\ call.op = "set" /\ call.gone # {}
    /\ mem.max_size = 2 /\ Len(mem.cache) = 2

\* The position in h of the last access of key: its latest set or get hit.
LastAccess(h, key) ==
    LET at == {i \in DOMAIN h : h[i].key = key /\ h[i].hit}
    IN CHOOSE i \in at : \A j \in at : j <= i

\* set(a,1); set(b,2); set(c,3); get(a); set(d,4)
LruScenario ==
    << [op |-> "set", key |-> "a", hit |-> TRUE],
       [op |-> "set", key |-> "b", hit |-> TRUE],
       [op |-> "set", key |-> "c", hit |-> TRUE],
       [op |-> "get", key |-> "a", hit |-> TRUE],
       [op |-> "set", key |-> "d", hit |-> TRUE] >>

\* C2: under a clock that strictly increases between operations, a set of a
\* new key at capacity evicts the stored key whose last access (latest get
\* hit or set) is the oldest, and no key accessed after it; and with
\* max_size = 3, after set(a,1); set(b,2); set(c,3); get(a); set(d,4), get(b)
\* is absent and get(a) = 1, get(c) = 3, get(d) = 4.
C2_EvictsOldest ==
    (hist' # hist /\ call'.op = "set" /\ ~DictHas(mem.cache, call'.key)
                  /\ Len(mem.cache) = mem.max_size)
    => \E victim \in DictKeys(mem.cache) :
          /\ MemGone(mem, mem') = {victim}
          /\ \A k \in DictKeys(mem.cache) \ {victim} :
                LastAccess(hist, victim) < LastAccess(hist, k)

C2_ScenarioResult ==
    (hist = LruScenario /\ mem.max_size = 3)
    => /\ MemGet(mem, "b", now, now).ret = None
       /\ MemGet(mem, "a", now, now).ret = 1
       /\ MemGet(mem, "c", now, now).ret = 3
       /\ MemGet(mem, "d", now, now).ret = 4

C2_Lru == []C2_ScenarioResult /\ [][C2_EvictsOldest]_vars

\* The scenario has run on a cache of three entries, and its last set evicted.
C2_Witness ==
    /\ hist = LruScenario /\ mem.max_size = 3
    /\ call.op = "set" /\ call.gone # {}

\* An entry is visible to readers at time t iff it has no expiry or t has
\* not passed it.
Live(item, t) == item.expires_at = None \/ t <= item.expires_at

Elements(seq) == {seq[i] : i \in DOMAIN seq}

\* C3: on MemoryCache and FileCache, for every ttl > 0, after set(k, v, ttl)
\* at time t with no later write, delete, clear or eviction of k, get(k)
\* returns v at every time <= t + ttl and None at every time > t + ttl.
C3_GetWithinTtl ==
    \A k \in DOMAIN written :
        (Returns("get") /\ call'.key = k /\ written[k].ttl > 0)
        => /\ call'.exc = ""
           /\ call'.val = IF now <= written[k].at + written[k].ttl
                          THEN written[k].value ELSE None

C3_Ttl == [][C3_GetWithinTtl]_vars

\* A get on a FileCache has just found an entry past its ttl, and removed it.
C3_Witness ==
    /\ kind = "file" /\ call.op = "get" /\ call.val = None
    /\ call.key \in DOMAIN written
    /\ written[call.key].ttl > 0 /\ written[call.key].value # None
    /\ now > written[call.key].at + written[call.key].ttl
    /\ call.gone # {}

\* C4: on a MemoryCache with any default_ttl, an entry stored by
\* set(k, v, ttl=None) is returned by get(k) at every later time, until k is
\* overwritten, deleted or evicted; an entry stored by set(k, v), the ttl
\* omitted, is returned until default_ttl after the set and not after.
C4_GetAfterSet ==
    \A k \in DOMAIN written :
        (Returns("get") /\ kind = "memory" /\ call'.key = k)
        => /\ written[k].ttl = None => call'.val = written[k].value
           /\ (written[k].ttl = UNSET /\ mem.default_ttl # None)
              => call'.val = IF now <= written[k].at + mem.default_ttl
                             THEN written[k].value ELSE None

C4_NoneNeverExpires == [][C4_GetAfterSet]_vars

\* A get has just returned a value stored with ttl=None, later than the
\* cache's default_ttl after the set.
C4_Witness ==
    /\ kind = "memory" /\ call.op = "get" /\ call.val # None
    /\ call.key \in DOMAIN written
    /\ written[call.key].ttl = None
    /\ mem.default_ttl # None
    /\ now > written[call.key].at + mem.default_ttl

\* C5: on a FileCache configured with default_ttl = d, an entry stored by
\* set(k, v, ttl=None), the None given explicitly, never expires: get(k)
\* returns v also later than d after the set.
C5_FileGetAfterNone ==
    \A k \in DOMAIN written :
        (Returns("get") /\ kind = "file" /\ call'.key = k
                        /\ written[k].ttl = None)
        => call'.exc = "" /\ call'.val = written[k].value

C5_FileNoneNeverExpires == [][C5_FileGetAfterNone]_vars

\* C6: a set without ttl through CacheManager.set or MultiLevelCache.set has
\* each target backend apply its own default TTL: on a MemoryCache with
\* default_ttl = d, reached through the manager or as a tier of the
\* composite, the entry stored expires at now + d.
C6_SetStep ==
    (Returns("set") /\ call'.exc = "" /\ call'.key \in DOMAIN written'
                    /\ written'[call'.key].ttl = UNSET)
    => /\ (kind = "manager" /\ mem.default_ttl # None)
          => DictGet(mem'.cache, call'.key).expires_at = now + mem.default_ttl
       /\ kind = "multilevel"
          => \A j \in DOMAIN tiers :
                tiers[j].default_ttl # None
                => DictGet(tiers'[j].cache, call'.key).expires_at
                     = now + tiers[j].default_ttl

C6_DefaultTtlThroughManager == [][C6_SetStep]_vars

\* C7: on MemoryCache and FileCache, delete(k) returns true iff an entry for
\* k was stored, and removes it; delete of an absent key changes nothing;
\* right after a delete(k), another delete(k) returns false and get(k) is
\* absent.
C7_DeleteStep ==
    Returns("delete") =>
        LET k == call'.key IN
        /\ kind = "memory" =>
            /\ call'.ok = DictHas(mem.cache, k)
            /\ ~DictHas(mem'.cache, k) /\ ~DictHas(mem'.access_times, k)
            /\ ~DictHas(mem.cache, k) => mem' = mem
            /\ \A j \in DictKeys(mem.cache) \ {k} :
                 /\ DictHas(mem'.cache, j)
                 /\ DictGet(mem'.cache, j) = DictGet(mem.cache, j)
        /\ kind = "file" =>
            /\ call'.ok = (get_cache_file(k) \in DOMAIN dir)
            /\ get_cache_file(k) \notin DOMAIN dir'
            /\ \A f \in (DOMAIN dir) \ {get_cache_file(k)} :
                 f \in DOMAIN dir' /\ dir'[f] = dir[f]
            /\ DOMAIN dir' \subseteq DOMAIN dir

C7_AfterDelete ==
    call.op = "delete" =>
        /\ kind = "memory" =>
            /\ MemDelete(mem, call.key).ret = FALSE
            /\ MemGet(mem, call.key, now, now).ret = None
        /\ kind = "file" =>
            /\ FileDelete(dir, call.key).ret = FALSE
            /\ FileGet(fc, dir, call.key, now) = FileResult(dir, None, "")

C7_Delete == []C7_AfterDelete /\ [][C7_DeleteStep]_vars

\* A delete has just removed a stored entry and returned true.
C7_Witness == call.op = "delete" /\ call.ok /\ call.gone # {}

\* C8: exists(k) returns true iff a non-expired entry for k is stored,
\* whatever the stored value (a stored None included), and removes an expired
\* entry it meets.
C8_ExistsStep ==
    Returns("exists") =>
        LET k == call'.key
            f == get_cache_file(call'.key)
        IN
        /\ kind = "memory" =>
            /\ call'.ok = (DictHas(mem.cache, k)
                            /\ Live(DictGet(mem.cache, k), now))
            /\ (DictHas(mem.cache, k) /\ ~Live(DictGet(mem.cache, k), now))
               => ~DictHas(mem'.cache, k)
        /\ (kind = "file" /\ f \notin DOMAIN dir) => ~call'.ok
        /\ (kind = "file" /\ f \in DOMAIN dir /\ dir[f].pickled) =>
            /\ call'.exc = "" /\ call'.ok = Live(dir[f], now)
            /\ ~Live(dir[f], now) => f \notin DOMAIN dir'

C8_Exists == [][C8_ExistsStep]_vars

\* C9: MemoryCache.keys() returns exactly the keys of the entries not
\* expired at call time, each once, and removes every expired entry from the
\* store; right after clear(), keys() is empty.
C9_KeysStep ==
    (Returns("keys") /\ kind = "memory") =>
        LET live == {k \in DictKeys(mem.cache) : Live(DictGet(mem.cache, k), now)}
        IN /\ Elements(call'.list) = live
           /\ Len(call'.list) = Cardinality(live)
           /\ DictKeys(mem'.cache) = live
           /\ DictKeys(mem'.access_times) = live
           /\ \A k \in live : DictGet(mem'.cache, k) = DictGet(mem.cache, k)

C9_AfterClear ==
    (call.op = "clear" /\ kind = "memory")
    => MemKeys(mem, [i \in DOMAIN mem.cache |-> now]).ret = << >>

C9_Keys == []C9_AfterClear /\ [][C9_KeysStep]_vars

\* keys() has just returned one key and removed an expired one.
C9_Witness ==
    /\ kind = "memory" /\ call.op = "keys"
    /\ call.gone # {} /\ Len(call.list) = 1

\* C10: FileCache.keys() returns every key that has a non-expired entry in
\* the directory: a key set (to a value get can return) and not deleted,
\* cleared, overwritten from outside or expired since is in the list.
C10_FileKeysStep ==
    (Returns("keys") /\ kind = "file") =>
        /\ call'.exc = ""
        /\ \A k \in DOMAIN written :
            ( /\ written[k].value # None
              /\ get_cache_file(k) \in DOMAIN dir
              /\ dir[get_cache_file(k)].pickled
              /\ Live(dir[get_cache_file(k)], now) )
            => k \in Elements(call'.list)

C10_FileKeys == [][C10_FileKeysStep]_vars

\* The file of key is in the directory and this instance cannot decode it.
Undecodable(key) ==
    /\ get_cache_file(key) \in DOMAIN dir
    /\ \/ ~dir[get_cache_file(key)].pickled
       \/ /\ ~file_is_expired(dir[get_cache_file(key)], now)
          /\ ~CanDeserialize(fc, dir[get_cache_file(key)].value)

\* C11: FileCache.get(k) on a key whose cache file cannot be decoded deletes
\* that file and raises CacheSerializationError; a second get(k) right after
\* it returns None without raising.
C11_GetStep ==
    (Returns("get") /\ kind = "file" /\ Undecodable(call'.key))
    => /\ call'.exc = "CacheSerializationError"
       /\ get_cache_file(call'.key) \notin DOMAIN dir'
       /\ \A f \in (DOMAIN dir) \ {get_cache_file(call'.key)} :
             f \in DOMAIN dir' /\ dir'[f] = dir[f]

C11_Retry ==
    (kind = "file" /\ call.op = "get" /\ call.exc # "")
    => FileGet(fc, dir, call.key, now) = FileResult(dir, None, "")

C12_GetStep ==
    (Returns("get") /\ kind = "file"
        /\ get_cache_file(call'.key) \in DOMAIN dir
        /\ ~dir[get_cache_file(call'.key)].pickled)
    => /\ call'.exc = ""
       /\ call'.val = None
       /\ get_cache_file(call'.key) \notin DOMAIN dir'

C12_CorruptIsAbsent == [][C12_GetStep]_vars

\* C13: an entry written with set(k, v) by one FileCache instance, not
\* expired or deleted since, is returned with an equal value, nested dicts
\* and lists included, by get(k) on an instance created later on the same
\* directory with the same serializer.
C13_GetStep ==
    \A k \in DOMAIN written :
        ( /\ Returns("get") /\ kind = "file" /\ call'.key = k
          /\ written[k].by < Len(hist)
          /\ get_cache_file(k) \in DOMAIN dir
          /\ dir[get_cache_file(k)].pickled
          /\ Live(dir[get_cache_file(k)], now) )
        => call'.exc = "" /\ call'.val = written[k].value

C13_Persistence == [][C13_GetStep]_vars

\* The values a reader may be given for a file that held contents before:
\* the value in it if it was a readable, unexpired envelope, else none.
ValueIn(contents) ==
    IF contents.pickled /\ ~file_is_expired(contents, now)
    THEN {contents.value.obj} ELSE {}

\* C14: when one FileCache instance runs get(k) while another instance on
\* the same directory is in the middle of set(k, v2), the reader does not see
\* a half-written file: get returns the previous value, v2 or None, does not
\* raise CacheSerializationError, and does not delete the file being
\* written.
C14_GetStep ==
    (Returns("get") /\ kind = "file"
        /\ writer.pc = "open" /\ writer.key = call'.key)
    => /\ call'.exc = ""
       /\ call'.val \in ValueIn(writer.before) \cup ValueIn(writer.contents)
                           \cup {None}
       /\ get_cache_file(call'.key) \in DOMAIN dir'

C14_NoTornRead == [][C14_GetStep]_vars

\* The tiers that do not raise.
Healthy(ts) == {j \in DOMAIN ts : ts[j].faulty = "never"}

\* What a direct get(key) on tier j of ts returns now.
TierGet(ts, j, key) == MemGet(ts[j], key, now, now).ret

\* C15: in a MultiLevelCache whose tiers do not fail, after get(k) returns a
\* value v found in tier i > 0, a direct get(k) on each faster tier returns
\* v; over [fast, slow], slow.set(k, v) then composite.get(k) returns v and
\* then fast.get(k) returns v.
C15_GetStep ==
    (Returns("get") /\ kind = "multilevel" /\ Healthy(tiers) = DOMAIN tiers)
    => \A i \in DOMAIN tiers :
          ( /\ TierGet(tiers, i, call'.key) # None
            /\ \A j \in 1..(i - 1) : TierGet(tiers, j, call'.key) = None )
          => /\ call'.val = TierGet(tiers, i, call'.key)
             /\ \A j \in 1..(i - 1) :
                   TierGet(tiers', j, call'.key) = call'.val

C15_WriteBack == [][C15_GetStep]_vars

\* A composite get has just returned a value the fast tier holds as a newer
\* entry than the slow tier: it was written back.
C15_Witness ==
    /\ kind = "multilevel" /\ call.op = "get" /\ call.val = 1
    /\ Healthy(tiers) = DOMAIN tiers
    /\ DictHas(tiers[1].cache, call.key) /\ DictHas(tiers[2].cache, call.key)
    /\ DictGet(tiers[1].cache, call.key).created_at
         > DictGet(tiers[2].cache, call.key).created_at

\* C16: MultiLevelCache.set(k, v, ttl) calls set on every tier; a tier that
\* raises neither makes set raise nor keeps the other tiers from being
\* written: when set returns, every tier that did not raise holds v for k.
C16_SetStep ==
    (Returns("set") /\ kind = "multilevel")
    => /\ call'.exc = ""
       /\ \A j \in Healthy(tiers) :
             /\ DictHas(tiers'[j].cache, call'.key)
             /\ DictGet(tiers'[j].cache, call'.key).value
                  = written'[call'.key].value

C16_SetEveryTier == [][C16_SetStep]_vars

\* A set has just returned with the first tier raising and the second
\* holding the value.
C16_Witness ==
    /\ kind = "multilevel" /\ call.op = "set"
    /\ tiers[1].faulty = "always"
    /\ DictHas(tiers[2].cache, call.key)
    /\ DictGet(tiers[2].cache, call.key).created_at = now

\* C17: a MultiLevelCache of one tier that raises on every operation and one
\* healthy backend, in either order, never raises and returns, for every
\* call, what the healthy backend returns for that call when used alone.
C17_Step ==
    (kind = "multilevel" /\ call.op = "idle" /\ Cardinality(Healthy(tiers)) = 1)
    => LET h == CHOOSE j \in DOMAIN tiers : tiers[j].faulty = "never"
           k == call'.key
       IN /\ call'.exc = ""
          /\ call'.op = "get" => call'.val = MemGet(tiers[h], k, now, now).ret
          /\ call'.op = "delete" => call'.ok = MemDelete(tiers[h], k).ret
          /\ call'.op = "exists" => call'.ok = MemExists(tiers[h], k, now).ret
          /\ call'.op = "keys" =>
                Elements(call'.list) =
                  Elements(MemKeys(tiers[h],
                                   [i \in DOMAIN tiers[h].cache |-> now]).ret)
          /\ call'.op = "clear" => tiers'[h].cache = << >>

C17_FaultIsolation == [][C17_Step]_vars

\* C18: MultiLevelCache.delete(k) calls delete on every tier and returns
\* true iff some tier reported a deletion; when it returns, no tier that did
\* not raise holds k, and with healthy tiers a composite get(k) right after
\* it returns None.
C18_DeleteStep ==
    (Returns("delete") /\ kind = "multilevel")
    => /\ call'.exc = ""
       /\ call'.ok = (\E j \in Healthy(tiers) : DictHas(tiers[j].cache, call'.key))
       /\ \A j \in Healthy(tiers) : ~DictHas(tiers'[j].cache, call'.key)
       /\ \A j \in DOMAIN tiers : \A k \in DictKeys(tiers[j].cache) \ {call'.key} :
             /\ DictHas(tiers'[j].cache, k)
             /\ DictGet(tiers'[j].cache, k) = DictGet(tiers[j].cache, k)

C18_AfterDelete ==
    (kind = "multilevel" /\ call.op = "delete" /\ Healthy(tiers) = DOMAIN tiers)
    => MLGet(tiers, call.key, now, {}).ret = None

C18_DeleteEveryTier == []C18_AfterDelete /\ [][C18_DeleteStep]_vars

\* A composite delete has just returned true for a key that only the second
\* tier held (the first tier holds another key, and only one).
C18_Witness ==
    /\ kind = "multilevel" /\ call.op = "delete" /\ call.ok
    /\ Healthy(tiers) = DOMAIN tiers
    /\ call.gone = {call.key}
    /\ tiers[1].cache # << >>

\* C19: MultiLevelCache.keys() returns the union, each key once, of the
\* keys() of every tier that does not raise, and does not raise when a
\* tier's keys() does.
C19_KeysStep ==
    (Returns("keys") /\ kind = "multilevel")
    => LET live(j) == {k \in DictKeys(tiers[j].cache) :
                          Live(DictGet(tiers[j].cache, k), now)}
           all == UNION {live(j) : j \in Healthy(tiers)}
       IN /\ call'.exc = ""
          /\ Elements(call'.list) = all
          /\ Len(call'.list) = Cardinality(all)

C19_KeysUnion == [][C19_KeysStep]_vars

\* keys() has just returned two keys, one of them held by the second tier
\* only.
C19_Witness ==
    /\ kind = "multilevel" /\ call.op = "keys" /\ Len(call.list) = 2
    /\ Healthy(tiers) = DOMAIN tiers
    /\ Len(tiers[1].cache) = 1 /\ Len(tiers[2].cache) = 2

\* C20: CacheManager.get_backend() with no name returns the default
\* backend; with a registered name, the backend most recently registered
\* under that name; with an unregistered name it raises CacheKeyError and
\* leaves the registry and the default backend unchanged.
C20_GetBackendStep ==
    (Returns("get_backend") /\ kind = "manager")
    => LET name == call'.key IN
       /\ name = "" => (call'.exc = "" /\ call'.val = 0)
       /\ (name # "" /\ name \in DOMAIN backends)
          => (call'.exc = "" /\ call'.val = backends[name])
       /\ (name # "" /\ name \notin DOMAIN backends)
          => call'.exc = "CacheKeyError"
       /\ backends' = backends /\ mem' = mem /\ tiers' = tiers

\* The registry holds, under each name, the backend of the last
\* register_backend of that name: register_backend puts it there, and
\* nothing else changes the registry.
C20_RegistryStep ==
    /\ Returns("register_backend")
       => /\ backends'[call'.key] = call'.val
          /\ \A n \in (DOMAIN backends) \ {call'.key} :
                n \in DOMAIN backends' /\ backends'[n] = backends[n]
    /\ backends' # backends => Returns("register_backend")

C20_GetBackend == [][C20_GetBackendStep /\ C20_RegistryStep]_vars

\* get_backend("x") has just returned the second object, while "y" names
\* the first.
C20_Witness ==
    /\ kind = "manager" /\ call.op = "get_backend" /\ call.key = "x"
    /\ call.exc = "" /\ call.val = 2
    /\ "y" \in DOMAIN backends /\ backends["y"] = 1

\* C21: every exception raised while CacheManager.get/set/delete/clear
\* resolves the backend or runs the backend operation reaches the caller as
\* a CacheError whose cause is the original exception, and the operation
\* does not return normally.
C21_Step ==
    \A key \in Keys, value \in Values, ttl \in MgrTtlArgs, backend \in RegNames :
        /\ ~BackendKnown(backend)
        /\ \/ ManagerGet(key, backend)
           \/ ManagerSet(key, value, ttl, backend)
           \/ ManagerDelete(key, backend)
           \/ ManagerClear(backend)
        => /\ call'.exc = "CacheError"
           /\ call'.cause = get_backend(backends, backend).exc

C21_CauseKept == [][C21_Step]_vars

\* C22: in a single-threaded run, since construction or the last
\* reset_stats, hits is the number of get calls that returned a value other
\* than None, misses the number of get calls that returned None, sets the
\* number of set calls that completed, deletes the number of delete calls
\* that returned True; and a set, delete or clear that fails changes no
\* counter.
C22_FailedStep ==
    /\ call.op = "idle"
    /\ call'.op \in {"set", "delete", "clear"}
    /\ call'.exc # ""
    => stats' = stats

C22_Counters ==
    /\ [](/\ stats.hits = hist[1]
          /\ stats.misses = hist[2]
          /\ stats.sets = hist[4]
          /\ stats.deletes = hist[5])
    /\ [][C22_FailedStep]_vars

\* C22 as the code has it: misses also counts the get calls that raised.
C22_CountersWithFailedGets ==
    /\ [](/\ stats.hits = hist[1]
          /\ stats.misses = hist[2] + hist[3]
          /\ stats.sets = hist[4]
          /\ stats.deletes = hist[5])
    /\ [][C22_FailedStep]_vars

\* One set, one get that hit, one get that returned None and a delete that
\* returned True have been counted, and no get has raised.
C22_Witness ==
    /\ hist = <<1, 1, 0, 1, 1>>
    /\ stats = [hits |-> 1, misses |-> 1, sets |-> 1, deletes |-> 1]

\* C23: the counter updates of concurrent get/set calls and reset_stats are
\* atomic with respect to each other, so no increment is lost: each counter
\* is at least the number of matching calls that began after the last
\* reset_stats and have returned.
C23_NoLostIncrement ==
    \A c \in DOMAIN NewStats :
        stats[c] >= hist[1].n[c] + hist[2].n[c]

\* C24: a function wrapped by cache_result or timed_cache runs for the first
\* call with a given key and its result is stored; a later call with the
\* key before the TTL has run out returns the stored result without running
\* the function, whatever the result is (None included); the first call
\* after expiry runs the function again.
C24_WrapperStep ==
    \A c \in DecoCalls :
        Wrapper(c) /\ c.func.backend = "" =>
            IF /\ CacheKey(c) \in DOMAIN written
               /\ \/ written[CacheKey(c)].ttl = None
                  \/ now <= written[CacheKey(c)].at + written[CacheKey(c)].ttl
            THEN /\ call'.ran = 0
                 /\ call'.val = written[CacheKey(c)].value
            ELSE /\ call'.ran = 1
                 /\ call'.val = Result(c)
                 /\ written'[CacheKey(c)].value = Result(c)

C24_Memoized == [][C24_WrapperStep]_vars

\* C25: when the manager's get or set raises during a call of a function
\* wrapped by cache_result (the backend name is not registered), no
\* exception reaches the caller: the function runs exactly once in that call
\* and the caller gets its result.
C25_WrapperStep ==
    \A c \in DecoCalls :
        /\ Wrapper(c)
        /\ \/ manager_get(CacheKey(c), c.func.backend).exc # ""
           \/ manager_set(mem, stats, CacheKey(c), Result(c), c.func.ttl,
                          c.func.backend).exc # ""
        => /\ call'.exc = ""
           /\ call'.ran = 1
           /\ call'.val = Result(c)

C25_CacheFailureSwallowed == [][C25_WrapperStep]_vars

\* lookup(1), whose backend "x" is not registered, has returned its result
\* after running once; the failed get was counted as a miss and nothing was
\* stored.
C25_Witness ==
    /\ call.op = "wrapper"
    /\ call.key = CacheKey(PyCall(Func("lookup", None, "", "x"), <<1>>, << >>))
    /\ ~BackendKnown("x")
    /\ call.exc = "" /\ call.ran = 1 /\ call.val = 1
    /\ stats.misses = 1 /\ stats.sets = 0
    /\ mem.cache = << >>

\* C26: the default key is a function of the callable, its positional
\* arguments and its keyword arguments sorted by name: a call gets the same
\* key as an earlier call of the same function with the same positional
\* arguments and the same keyword arguments in any order, and is served the
\* entry that call stored; with a key_func, calls for which key_func returns
\* the same key share one entry whatever their other arguments.
SameCall(c1, c2) ==
    /\ c1.func = c2.func
    /\ IF c1.func.key_func # ""
       THEN custom_key(c1.args, c1.kwargs) = custom_key(c2.args, c2.kwargs)
       ELSE c1.args = c2.args /\ Elements(c1.kwargs) = Elements(c2.kwargs)

C26_WrapperStep ==
    \A c \in KeyCalls :
        Wrapper(c) =>
            /\ \A c2 \in KeyCalls : SameCall(c, c2) => CacheKey(c2) = call'.key
            /\ \A i \in DOMAIN hist :
                  /\ SameCall(c, hist[i])
                  /\ \A j \in 1..(i - 1) : ~SameCall(c, hist[j])
                  => /\ call'.ran = 0
                     /\ call'.val = Result(hist[i])

C26_KeyStability ==
    /\ [](Len(mem.cache) <=
            Cardinality({CacheKey(hist[i]) : i \in DOMAIN hist}))
    /\ [][C26_WrapperStep]_vars

\* compute(a=1, b=2) ran; compute(b=2, a=1) was served its entry; then
\* get_user_data(1) ran and get_user_data(1, a=1) has been served its entry:
\* two entries for four calls.
C26_Witness ==
    /\ Len(hist) = 4
    /\ hist[1].kwargs = <<[k |-> "a", v |-> 1], [k |-> "b", v |-> 2]>>
    /\ hist[2].kwargs = <<[k |-> "b", v |-> 2], [k |-> "a", v |-> 1]>>
    /\ hist[3] = PyCall(Func("get_user_data", None, "custom_key", ""),
                        <<1>>, << >>)
    /\ hist[4].kwargs = <<[k |-> "a", v |-> 1]>>
    /\ call.op = "wrapper" /\ call.ran = 0 /\ call.val = Result(hist[3])
    /\ Len(mem.cache) = 2

\* C27: get_cache_manager() returns the same CacheManager instance on every
\* call until init_cache_manager is called, also when the first calls are
\* made by several threads at once; init_cache_manager replaces the instance
\* with a new one whose default backend is the one given.
C27_InitStep ==
    \A default_backend \in GlobalBackends :
        InitCacheManager(default_backend) =>
            /\ globals'.cache_manager \notin {None, globals.cache_manager}
            /\ globals'.managers[globals'.cache_manager].default_backend
                  = default_backend

C27_Singleton ==
    /\ [](\A t \in Threads, u \in Threads :
            hist[t].got # None /\ hist[u].got # None
            => hist[t].got = hist[u].got)
    /\ [][C27_InitStep]_vars

\* C28: CacheManager.get/set/delete/clear called with backend=name act on
\* the backend object registered under that name and on no other: the
\* default backend and every other backend object keep their contents, and
\* clear changes no counter.
C28_NamedStep ==
    \A key \in RegKeys, value \in RegValues, ttl \in RegTtlArgs,
       backend \in RegNames \ {""} :
        LET j == backends[backend] IN
        /\ backend \in DOMAIN backends
        /\ \/ ManagerGet(key, backend)
           \/ ManagerSet(key, value, ttl, backend)
           \/ ManagerDelete(key, backend)
           \/ ManagerClear(backend)
        => /\ mem' = mem
           /\ \A i \in DOMAIN tiers : i # j => tiers'[i] = tiers[i]
           /\ call'.exc = ""
           /\ call'.op = "set" => DictHas(tiers'[j].cache, key)
           /\ call'.op = "get" => call'.val =
                                    MemGet(tiers[j], key, now, now).ret
           /\ call'.op = "delete" => /\ call'.ok = DictHas(tiers[j].cache, key)
                                     /\ ~DictHas(tiers'[j].cache, key)
           /\ call'.op = "clear" => /\ tiers'[j].cache = << >>
                                    /\ stats' = stats

C28_NamedBackendOnly == [][C28_NamedStep]_vars

\* As in test_clear_backend: the default backend and the backend registered
\* as "x" each held "a"; clear(backend="x") has emptied the one and left the
\* other's entry in place.
C28_Witness ==
    /\ "x" \in DOMAIN backends
    /\ call.op = "clear" /\ call.exc = "" /\ call.gone = {"a"}
    /\ tiers[backends["x"]].cache = << >>
    /\ DictHas(mem.cache, "a")

\* C29: the public operations of one MemoryCache called from several
\* threads are serialized by its lock: only one thread at a time is inside
\* an operation, and every operation leaves the cache, and returns, what
\* the whole operation run alone on the cache as it was when the operation
\* got the lock leaves and returns; so the results are those of running the
\* operations one after the other in the order they got the lock, and a
\* get(k) that follows the thread's own set(k, v) returns v unless another
\* operation removed or replaced the entry in between.
Alone(rec) ==
    LET none == [val |-> None, ok |-> FALSE, list |-> << >>] IN
    CASE rec.op = "set" ->
           [none EXCEPT !.val = None] @@
           [m |-> MemSet(rec.snap, rec.key, rec.value, rec.ttl,
                         rec.t1, rec.t1, rec.t2)]
      [] rec.op = "get" ->
           [none EXCEPT !.val = MemGet(rec.snap, rec.key, rec.t1, rec.t2).ret]
           @@ [m |-> MemGet(rec.snap, rec.key, rec.t1, rec.t2).m]
      [] rec.op = "exists" ->
           [none EXCEPT !.ok = MemExists(rec.snap, rec.key, rec.t1).ret]
           @@ [m |-> MemExists(rec.snap, rec.key, rec.t1).m]
      [] rec.op = "delete" ->
           [none EXCEPT !.ok = MemDelete(rec.snap, rec.key).ret]
           @@ [m |-> MemDelete(rec.snap, rec.key).m]
      [] rec.op = "clear" -> none @@ [m |-> MemClear(rec.snap)]
      [] rec.op = "keys" ->
           LET r == MemKeys(rec.snap, [i \in DOMAIN rec.snap.cache |-> rec.t1])
           IN [none EXCEPT !.list = r.ret] @@ [m |-> r.m]

C29_ReturnStep ==
    \A t \in Threads :
        LockRelease(t) /\ hist[t].held = 1 =>
            /\ mem = Alone(hist[t]).m
            /\ hist[t].val = Alone(hist[t]).val
            /\ hist[t].ok = Alone(hist[t]).ok
            /\ hist[t].list = Alone(hist[t]).list

C29_OneAtATime ==
    /\ \A t \in Threads, u \in Threads :
          hist[t].held > 0 /\ hist[u].held > 0 => t = u
    /\ \A t \in Threads : hist[t].pc \notin {"idle", "acquire"} =>
                                                        hist[t].held > 0

C29_Serialized == []C29_OneAtATime /\ [][C29_ReturnStep]_vars

\* Thread 1 is about to return 1 from get("a"), which found the entry a
\* set put there, while thread 2 has called set("b", ...) and is waiting
\* for the lock.
C29_Witness ==
    /\ hist[1].op = "get" /\ hist[1].key = "a" /\ hist[1].pc = "release"
    /\ hist[1].held = 1 /\ hist[1].val = 1
    /\ hist[2].op = "set" /\ hist[2].key = "b" /\ hist[2].pc = "acquire"
    /\ ~CanAcquire(2)

\* C30: every MemoryCache operation terminates and has released the lock
\* when it returns, also when it calls delete while it holds the lock (set
\* evicting at capacity, get/exists/keys removing an expired entry); no
\* interleaving of threads deadlocks, and under fair scheduling every thread
\* that asks for the lock gets it.
C30_Released == \A t \in Threads : hist[t].pc = "idle" => hist[t].held = 0

C31_SameKeys ==
    /\ DictKeys(mem.cache) = DictKeys(mem.access_times)
    /\ Len(mem.cache) = Len(mem.access_times)

\* A get has just removed an expired key while another key stays stored.
C31_Witness ==
    /\ call.op = "get" /\ call.gone = {call.key}
    /\ mem.cache # <<>>
    /\ DictKeys(mem.cache) = DictKeys(mem.access_times)

\* The access time recorded for key in m.
AccessTime(m, key) == DictGet(m.access_times, key)

\* The stored keys whose entry is expired at clock reading t.
ExpiredKeys(m, t) ==
    {k \in DictKeys(m.cache) : is_expired(DictGet(m.cache, k), t)}

\* C32: expiry in MemoryCache is lazy.  The passing of time removes nothing;
\* get and exists remove their own key, and only when it is expired; keys
\* removes exactly the expired keys; set purges no expired entry: it removes
\* nothing unless its key is new and the store is full, expired entries
\* counted, and then it removes one key whose access time is the smallest,
\* expired or not, every other expired entry staying stored.
C32_Step ==
    /\ (call.op = "idle" /\ call'.op = "idle") => mem' = mem
    /\ (Returns("get") \/ Returns("exists"))
        => MemGone(mem, mem') = {call'.key} \cap ExpiredKeys(mem, now)
    /\ Returns("keys") => MemGone(mem, mem') = ExpiredKeys(mem, now)
    /\ Returns("set")
        => IF Len(mem.cache) >= mem.max_size /\ ~DictHas(mem.cache, call'.key)
           THEN /\ Cardinality(MemGone(mem, mem')) = 1
                /\ \A g \in MemGone(mem, mem'), k \in DictKeys(mem.cache) :
                      AccessTime(mem, g) <= AccessTime(mem, k)
                /\ ExpiredKeys(mem, now) \ MemGone(mem, mem')
                      \subseteq DictKeys(mem'.cache)
           ELSE MemGone(mem, mem') = {}

C32_LazyExpiry == [][C32_Step]_vars

\* A set at capacity has just evicted an entry while an expired entry of
\* another key stays stored.
C32_Witness ==
    /\ call.op = "set" /\ call.gone # {}
    /\ \E k \in ExpiredKeys(mem, now) : k # call.key

\* C36: the access time of a stored key changes only in a get that finds
\* that key and in a set of that key.  exists and keys leave the access time
\* of every key they keep as it was, so an exists(k) that returns True
\* leaves the next eviction victim unchanged, k included.
C36_Step ==
    /\ \A k \in DictKeys(mem.access_times) \cap DictKeys(mem'.access_times) :
          AccessTime(mem', k) # AccessTime(mem, k)
          => \/ Returns("set") /\ call'.key = k
             \/ Returns("get") /\ call'.key = k /\ call'.val # None
    /\ (Returns("exists") \/ Returns("keys"))
        => \A k \in DictKeys(mem'.cache) :
              AccessTime(mem', k) = AccessTime(mem, k)
    /\ (Returns("exists") /\ call'.ok) => lru_key(mem') = lru_key(mem)

C36_AccessTimes == [][C36_Step]_vars

\* exists has just found the key that was accessed before the clock moved
\* and that is the next eviction victim of a full cache of two.
C36_Witness ==
    /\ call.op = "exists" /\ call.ok
    /\ Len(mem.cache) = 2 /\ mem.max_size = 2
    /\ AccessTime(mem, call.key) < now
    /\ lru_key(mem) = call.key
    /\ \E k \in DictKeys(mem.cache) : AccessTime(mem, k) > AccessTime(mem, call.key)

\* C37: a set of a key that is already stored never evicts.  With max_size
\* entries stored, set(k, v2) for a stored k removes no key, gives k the new
\* value, the expiry of the new ttl and the access time of the call, and
\* leaves the entry and the access time of every other key unchanged.
C37_Step ==
    (Returns("set") /\ DictHas(mem.cache, call'.key)
                    /\ Len(mem.cache) >= mem.max_size)
    => /\ MemGone(mem, mem') = {}
       /\ DictKeyList(mem'.cache) = DictKeyList(mem.cache)
       /\ \A k \in DictKeys(mem.cache) \ {call'.key} :
             /\ DictGet(mem'.cache, k) = DictGet(mem.cache, k)
             /\ AccessTime(mem', k) = AccessTime(mem, k)
       /\ DictGet(mem'.cache, call'.key) =
             [value |-> written'[call'.key].value, created_at |-> now,
              expires_at |-> MemExpiresAt(mem, written'[call'.key].ttl, now)]
       /\ AccessTime(mem', call'.key) = now

C37_ReplaceInPlace == [][C37_Step]_vars

\* A set has just replaced the least recently accessed key of a full cache
\* of two, at a later time and with another ttl than it was stored with.
C37_Witness ==
    /\ call.op = "set" /\ call.gone = {}
    /\ Len(mem.cache) = 2 /\ mem.max_size = 2
    /\ DictGet(mem.cache, call.key).created_at = now
    /\ DictGet(mem.cache, call.key).expires_at # None
    /\ now > 0
    /\ mem.cache[1].k = call.key
    /\ AccessTime(mem, mem.cache[2].k) < now

\* C35: MemoryCache(max_size) with max_size <= 0 is rejected when it is
\* constructed, so every instance there is has max_size >= 1 and none ever
\* stores more entries than its max_size.
C35_NoInstanceBelowOne ==
    /\ mem.max_size >= 1
    /\ Len(mem.cache) <= mem.max_size

\* C33: an entry written with composite.set(k, v, ttl), ttl > 0, is never
\* returned by composite.get(k) later than the time of the set + ttl, also
\* after a get wrote it back from a lower tier into a higher one.
C33_Step ==
    (/\ kind = "multilevel" /\ Returns("get")
     /\ call'.key \in DOMAIN written
     /\ written[call'.key].ttl \notin {UNSET, None}
     /\ now > written[call'.key].at + written[call'.key].ttl)
    => call'.val = None

C33_TtlThroughTiers == [][C33_Step]_vars

\* C34: a CacheManager.get that fails, on a backend name that is not
\* registered or on an exception from the backend's get, adds exactly one
\* to misses, leaves hits, sets and deletes as they were, stores nothing,
\* and raises CacheError.
C34_Step ==
    (Returns("get") /\ call'.exc # "")
    => /\ call'.exc = "CacheError"
       /\ stats' = [stats EXCEPT !.misses = @ + 1]
       /\ mem' = mem /\ tiers' = tiers

C34_FailedGetIsMiss == [][C34_Step]_vars

\* The backend "x" has answered one get with the value and has raised in
\* the next: one hit, one miss, and CacheError with the backend's exception
\* behind it.
C34_Witness ==
    /\ call.op = "get" /\ call.exc = "CacheError"
    /\ call.context = "CacheError"
    /\ stats.hits = 1 /\ stats.misses = 1

\* C38: after composite.set(k, v2) has returned, composite.get(k) returns
\* v2 or None, never the value of an earlier set, whichever tiers raised
\* during the set of v2.
C38_Step ==
    (kind = "multilevel" /\ Returns("get") /\ call'.key \in DOMAIN written)
    => call'.val \in {written[call'.key].value, None}

C38_ReadYourWrites == [][C38_Step]_vars

\* C39: get and set of one MultiLevelCache over healthy tiers are
\* serialized by its lock.  The value a get writes back into a higher tier
\* is the value of the last set of that key that has returned, never an
\* older one; and when no call is running, every tier that holds a key
\* holds the value of the last set of it that has returned.
C39_WriteBackStep ==
    \A t \in Threads :
        (hist[t].pc = "get.back" /\ hist'[t].pc # "get.back")
        => /\ hist[t].key \in DOMAIN written
           /\ hist[t].val = written[hist[t].key].value
           /\ DictGet(tiers'[hist[t].j].cache, hist[t].key).value =
                 written[hist[t].key].value

C39_Quiescent ==
    (\A t \in Threads : hist[t].pc = "idle")
    => \A n \in DOMAIN tiers : \A k \in DictKeys(tiers[n].cache) :
          /\ k \in DOMAIN written
          /\ DictGet(tiers[n].cache, k).value = written[k].value

C39_CompositeSerialized == []C39_Quiescent /\ [][C39_WriteBackStep]_vars

\* A get has written the value of the last set back into the first tier
\* while the other thread waits for the lock with a set of another value
\* for the same key.
C39_Witness ==
    \E t \in Threads, u \in Threads :
        /\ hist[t].op = "get" /\ hist[t].pc = "release" /\ hist[t].i = 2
        /\ hist[u].op = "set" /\ hist[u].pc = "acquire"
        /\ hist[u].key = hist[t].key /\ hist[u].value # hist[t].val
        /\ DictHas(tiers[1].cache, hist[t].key)
        /\ DictGet(tiers[1].cache, hist[t].key).value = hist[t].val

\* The call that computed and stored the entry under key: the last call in
\* h that ran its function for that key.
StoredBy(h, key) ==
    h[CHOOSE i \in DOMAIN h :
        /\ h[i].ran = 1 /\ CacheKey(h[i].call) = key
        /\ \A n \in (i + 1)..Len(h) :
              ~(h[n].ran = 1 /\ CacheKey(h[n].call) = key)].call

\* C40: with the default key on a shared CacheManager, a call of a wrapped
\* function that is answered from the cache gets a result that a call of
\* the same function computed and stored, never one of another function,
\* also when both functions have the same module and the same name.
C40_Step ==
    (Returns("wrapper") /\ call'.exc = "" /\ call'.ran = 0
                        /\ Len(hist') = Len(hist) + 1)
    => StoredBy(hist, call'.key).func = hist'[Len(hist')].call.func

C40_NoSharedEntry == [][C40_Step]_vars

====
